---- MODULE Spec2Model ----
(***************************************************************************)
(* Model of intermap's Go -> Python bridge (package python, Bridge): the   *)
(* persistent sidecar supervisor with crash tracking and single-shot       *)
(* fallback.  Callers are goroutines that call Bridge.Run concurrently;    *)
(* the analyzer process is the environment, its answers are drawn from     *)
(* small sets.  The second part models package cache (Cache): Get, Put,    *)
(* Invalidate and evictLRU over small sets of keys, hashes and values.     *)
(***************************************************************************)
EXTENDS Integers, Sequences, FiniteSets, TLC

\* ---------------------------------------------------------------- bounds
\* New sidecar-mode calls are admitted while every caller can still take two
\* request IDs (a call writes at most twice) without b.nextID passing MaxID.
MaxID == 5
\* The clock stops advancing at MaxTime (seconds).
MaxTime == 10
\* The clock advances in steps of TickStep seconds.
TickStep == 5

\* ------------------------------------------------------ program constants
\* recordCrash: cutoff := now.Add(-10 * time.Second)
CrashWindow == 10
\* recordCrash: if len(b.crashTimes) >= 3
CrashLimit == 3

\* Goroutines calling Run on one Bridge.
Callers == {"a", "b"}

\* Errors runSidecar can return (the local err of Run), "none" for nil.
ErrStartup == "startup"
ErrWrite == "write"
ErrEOF == "eof"
ErrParse == "parse"
ErrAnalyzer == "analyzer"
ErrTimeout == "timeout"
ErrCtx == "ctx"
ErrExit == "exit"

VARIABLES
    pc,          \* position of each caller inside Run
    attempt,     \* 1 = first runSidecar of the call, 2 = the retry
    cancelled,   \* the caller's ctx is done
    reqID,       \* reqID of the request the caller wrote last (0: none)
    respID,      \* ID of the response whose result or error Run returns
    err,         \* the error Run holds / returns ("none" = nil)
    via,         \* how the returned value was produced
    mu,          \* b.mu: "" when free, else the holder (a caller or "close")
    proc,        \* b.proc / b.stdin / b.scanner: FALSE = nil, TRUE = a live process
    nextID,      \* b.nextID
    crashTimes,  \* b.crashTimes
    fallback,    \* b.fallback
    now,         \* time.Now(), in seconds
    hist,        \* log of Run calls and returns (kept by the scenario specifications)
    entries,     \* c.entries of the Cache
    lastPut,     \* per key still stored, arguments and time of its latest Put (history)
    ret,         \* the latest cache call: method, key, and what a Get returned
    git,         \* the directories that hold a .git entry
    scanned,     \* what the latest Scan of the unchanged tree returned
    walk,        \* the Resolve call in progress or just returned
    mtime,       \* modification time of each file of the fingerprinted project
    tool,        \* the latest tool call and what its handler returned
    timer,       \* the latest wait of runSidecar or runSingleShot and its timers
    calls        \* the concurrent project_registry calls: position and scanned list

vars == <<pc, attempt, cancelled, reqID, respID, err, via, mu, proc,
          nextID, crashTimes, fallback, now, hist, entries, lastPut, ret,
          git, scanned, walk, mtime, tool, timer, calls>>

callerVars == <<attempt, cancelled, reqID, respID, err, via>>
crashVars == <<crashTimes, fallback>>
cacheVars == <<entries, lastPut, ret>>
regVars == <<git, scanned, walk, mtime, timer>>
bridgeVars == <<pc, callerVars, mu, proc, nextID, crashVars, hist>>

\* A map without keys.
EmptyMap == [k \in {} |-> 0]
\* No cache method has been called yet.
NoRet ==
    [op |-> "", key |-> "", mtimeHash |-> "", value |-> "", ok |-> FALSE,
     called |-> FALSE, deleted |-> FALSE]

\* ---------------------------------------------------- the directory tree
\* A path is the sequence of its names below the filesystem root <<>>.  The
\* workspace root R holds group directories, these hold project directories,
\* and a project directory holds one more level; the hidden group directory
\* holds one project directory.  Every path of Dirs exists; what varies is
\* which of them hold a .git entry (at most MaxGit of them).
MaxGit == 2
Names == {".h", "a", "b"}
R == <<"w">>
Level2 == {<<g, s>> : g \in {"a", "b"}, s \in Names} \cup {<<".h", "a">>}
Dirs ==
    {<<>>, R}
        \cup {R \o <<g>> : g \in Names}
        \cup {R \o d : d \in Level2}
        \cup {R \o d \o <<"a">> : d \in Level2}

\* filepath.Base and filepath.Dir of a clean absolute path.
Base(p) == IF p = <<>> THEN "/" ELSE p[Len(p)]
Dir(p) == IF p = <<>> THEN <<>> ELSE SubSeq(p, 1, Len(p) - 1)
\* strings.HasPrefix(name, ".")
Hidden(name) == name = ".h"
\* Byte order of the strings that occur as a Group or a Name.
Rank(str) ==
    CASE str = "" -> 0
      [] str = ".h" -> 1
      [] str = "/" -> 2
      [] str = "a" -> 3
      [] str = "b" -> 4
      [] str = "w" -> 5

\* No Scan since the tree changed last (again: the latest Scan followed
\* another one of the same tree); no Resolve call yet.
NoScan == [ok |-> FALSE, list |-> <<>>, again |-> FALSE]
NoProject ==
    [Name |-> "", Path |-> <<>>, Language |-> "", Group |-> "", GitBranch |-> ""]
NoWalk ==
    [state |-> "idle", path |-> <<>>, current |-> <<>>, project |-> NoProject]

\* The files of the fingerprinted project, each with the directories between
\* the project root and the file, its name and its extension; MaxMtime bounds
\* the modification times.
MaxMtime == 3
Files ==
    {[dir |-> <<>>, name |-> "main", ext |-> ".go"],
     [dir |-> <<"a">>, name |-> "x", ext |-> ".py"],
     [dir |-> <<"vendor">>, name |-> "v", ext |-> ".go"],
     [dir |-> <<".h">>, name |-> "h", ext |-> ".go"],
     [dir |-> <<>>, name |-> "README", ext |-> ".md"]}

\* What a tool handler returns: the *mcp.CallToolResult (error-bearing or
\* text) and the Go error next to it.  No tool has been called yet.
NoResult == [isError |-> FALSE, kind |-> "", body |-> ""]
NoTool ==
    [name |-> "", state |-> "idle", args |-> [none |-> TRUE],
     result |-> NoResult, goErr |-> "nil", scans |-> 0, ran |-> FALSE]

\* A goroutine that has not called project_registry yet.
NoCall ==
    [state |-> "idle", root |-> "", refresh |-> FALSE, missed |-> FALSE,
     projects |-> <<>>, result |-> NoResult]

\* No wait has begun yet.
NoTimer ==
    [mode |-> "", start |-> 0, hasDeadline |-> FALSE, d |-> 0, after |-> 0,
     ends |-> 0]

\* NewBridge: no process, empty crash window, sidecar mode.  New (cache): an
\* empty map.
Init ==
    /\ pc = [c \in Callers |-> "idle"]
    /\ attempt = [c \in Callers |-> 1]
    /\ cancelled = [c \in Callers |-> FALSE]
    /\ reqID = [c \in Callers |-> 0]
    /\ respID = [c \in Callers |-> 0]
    /\ err = [c \in Callers |-> "none"]
    /\ via = [c \in Callers |-> "none"]
    /\ mu = ""
    /\ proc = FALSE
    /\ nextID = 0
    /\ crashTimes = <<>>
    /\ fallback = FALSE
    /\ now = 0
    /\ hist = <<>>
    /\ entries = EmptyMap
    /\ lastPut = EmptyMap
    /\ ret = NoRet
    /\ git = {}
    /\ scanned = NoScan
    /\ walk = NoWalk
    /\ mtime = [f \in Files |-> 1]
    /\ tool = NoTool
    /\ timer = NoTimer
    /\ calls = [c \in Callers |-> NoCall]

\* ------------------------------------------------------------ recordCrash
\* The loop of recordCrash: keep t with t.After(cutoff).
RECURSIVE filterAfter(_, _)
filterAfter(ts, cutoff) ==
    IF ts = <<>> THEN <<>>
    ELSE IF Head(ts) > cutoff
         THEN <<Head(ts)>> \o filterAfter(Tail(ts), cutoff)
         ELSE filterAfter(Tail(ts), cutoff)

\* A recordCrash that appends without dropping old timestamps.
recordCrashNoFilter ==
    /\ crashTimes' = Append(crashTimes, now)
    /\ fallback' = (fallback \/ Len(crashTimes') >= CrashLimit)

\* A recordCrash that assigns the flag from the window instead of only
\* setting it.
recordCrashAssign ==
    /\ crashTimes' = filterAfter(Append(crashTimes, now), now - CrashWindow)
    /\ fallback' = (Len(crashTimes') >= CrashLimit)

recordCrash ==
    /\ crashTimes' = filterAfter(Append(crashTimes, now), now - CrashWindow)
    /\ fallback' = (fallback \/ Len(crashTimes') >= CrashLimit)

\* ------------------------------------------------------------- stopLocked
\* Close stdin, wait, kill after 2 s; clear proc, stdin and scanner.
stopLocked ==
    proc' = FALSE

\* -------------------------------------------------------------------- Run
\* Run, entry: a new call reads b.fallback (without the mutex) and either goes
\* straight to runSingleShot or queues for b.mu.
RunEnter(c) ==
    /\ pc[c] = "idle"
    /\ fallback \/ nextID + 2 * Cardinality(Callers) <= MaxID
    /\ pc' = [pc EXCEPT ![c] = IF fallback THEN "oneshot" ELSE "lock"]
    /\ attempt' = [attempt EXCEPT ![c] = 1]
    /\ cancelled' = [cancelled EXCEPT ![c] = FALSE]
    /\ reqID' = [reqID EXCEPT ![c] = 0]
    /\ respID' = [respID EXCEPT ![c] = 0]
    /\ err' = [err EXCEPT ![c] = "none"]
    /\ via' = [via EXCEPT ![c] = "none"]
    /\ UNCHANGED <<mu, proc, nextID, now, cacheVars, regVars>>
    /\ UNCHANGED crashVars

\* A Run that proceeds to runSidecar without waiting for the mutex.
RunLockNoWait(c) ==
    /\ pc[c] = "lock"
    /\ mu' = c
    /\ pc' = [pc EXCEPT ![c] = "ensure"]
    /\ UNCHANGED <<proc, nextID, now, cacheVars, regVars>>
    /\ UNCHANGED callerVars
    /\ UNCHANGED crashVars

\* b.mu.Lock() of Run; the first runSidecar starts under it.
RunLock(c) ==
    /\ pc[c] = "lock"
    /\ mu = ""
    /\ mu' = c
    /\ pc' = [pc EXCEPT ![c] = "ensure"]
    /\ UNCHANGED <<proc, nextID, now, cacheVars, regVars>>
    /\ UNCHANGED callerVars
    /\ UNCHANGED crashVars

\* A runSidecar that takes a new ID only for the first attempt of a call and
\* writes the retry under the ID the call already has.
runSidecarWriteSameID(c) ==
    /\ IF reqID[c] = 0
       THEN /\ nextID' = nextID + 1
            /\ reqID' = [reqID EXCEPT ![c] = nextID + 1]
       ELSE UNCHANGED <<nextID, reqID>>
    /\ \E ok \in BOOLEAN :
         IF ok
         THEN /\ pc' = [pc EXCEPT ![c] = "await"]
              /\ UNCHANGED err
         ELSE /\ pc' = [pc EXCEPT ![c] = "failed"]
              /\ err' = [err EXCEPT ![c] = ErrWrite]

\* runSidecar after ensureStarted: reqID := b.nextID.Add(1), then the request
\* line is written to stdin; the write may fail (closed pipe).
runSidecarWrite(c) ==
    /\ nextID' = nextID + 1
    /\ reqID' = [reqID EXCEPT ![c] = nextID + 1]
    /\ \E ok \in BOOLEAN :
         IF ok
         THEN /\ pc' = [pc EXCEPT ![c] = "await"]
              /\ UNCHANGED err
         ELSE /\ pc' = [pc EXCEPT ![c] = "failed"]
              /\ err' = [err EXCEPT ![c] = ErrWrite]

\* runSidecar from its start: ensureStarted up to cmd.Start.  With b.proc set
\* it returns nil and the request is written; else the pipes or the start
\* fail, or a new process runs and its ready line is awaited.
ensureStarted(c) ==
    /\ pc[c] = "ensure"
    /\ \/ /\ proc
          /\ runSidecarWrite(c)
       \/ /\ ~proc
          /\ pc' = [pc EXCEPT ![c] = "failed"]
          /\ err' = [err EXCEPT ![c] = ErrStartup]
          /\ UNCHANGED <<nextID, reqID>>
       \/ /\ ~proc
          /\ pc' = [pc EXCEPT ![c] = "handshake"]
          /\ UNCHANGED <<err, nextID, reqID>>
    /\ UNCHANGED <<attempt, cancelled, respID, via>>
    /\ UNCHANGED <<mu, proc, now, cacheVars, regVars>>
    /\ UNCHANGED crashVars

\* What the first scanner.Scan() of a new process can yield.
ReadyLines == {"ready", "eof", "garbage", "notready"}

\* An ensureStarted that returns nil on the ready line without keeping the
\* new process in b.proc.
ensureStartedReadyNoInstall(c) ==
    /\ pc[c] = "handshake"
    /\ \E line \in ReadyLines :
         IF line = "ready"
         THEN /\ UNCHANGED proc
              /\ runSidecarWrite(c)
         ELSE /\ pc' = [pc EXCEPT ![c] = "failed"]
              /\ err' = [err EXCEPT ![c] = ErrStartup]
              /\ UNCHANGED <<proc, nextID, reqID>>
    /\ UNCHANGED <<attempt, cancelled, respID, via>>
    /\ UNCHANGED <<mu, now, cacheVars, regVars>>
    /\ UNCHANGED crashVars

\* ensureStarted from the ready line on: only a parsed {"status": "ready"}
\* installs the process (and runSidecar goes on to write); anything else
\* kills the new process and fails.
ensureStartedReady(c) ==
    /\ pc[c] = "handshake"
    /\ \E line \in ReadyLines :
         IF line = "ready"
         THEN /\ proc' = TRUE
              /\ runSidecarWrite(c)
         ELSE /\ pc' = [pc EXCEPT ![c] = "failed"]
              /\ err' = [err EXCEPT ![c] = ErrStartup]
              /\ UNCHANGED <<proc, nextID, reqID>>
    /\ UNCHANGED <<attempt, cancelled, respID, via>>
    /\ UNCHANGED <<mu, now, cacheVars, regVars>>
    /\ UNCHANGED crashVars

\* A line the analyzer may put on stdout: a response (with a result or an
\* error) carrying the outstanding ID or an earlier one, or no JSON at all.
LineKinds == {"result", "error", "garbage"}
RespIDs(c) == {reqID[c], reqID[c] - 1}

\* runSidecar's select: a scanned line, EOF, the deadline, or ctx.Done().
\* The line is parsed; resp.ID is not compared with reqID.
runSidecarSelect(c) ==
    /\ pc[c] = "await"
    /\ \/ \E id \in RespIDs(c) :
            /\ respID' = [respID EXCEPT ![c] = id]
            /\ via' = [via EXCEPT ![c] = "sidecar"]
            /\ pc' = [pc EXCEPT ![c] = "done"]
            /\ mu' = ""
            /\ UNCHANGED err
       \/ \E id \in RespIDs(c) :
            /\ respID' = [respID EXCEPT ![c] = id]
            /\ err' = [err EXCEPT ![c] = ErrAnalyzer]
            /\ pc' = [pc EXCEPT ![c] = "failed"]
            /\ UNCHANGED <<via, mu>>
       \/ /\ \E e \in {ErrParse, ErrEOF, ErrTimeout} :
               err' = [err EXCEPT ![c] = e]
          /\ pc' = [pc EXCEPT ![c] = "failed"]
          /\ UNCHANGED <<respID, via, mu>>
       \/ /\ cancelled[c]
          /\ err' = [err EXCEPT ![c] = ErrCtx]
          /\ pc' = [pc EXCEPT ![c] = "failed"]
          /\ UNCHANGED <<respID, via, mu>>
    /\ UNCHANGED <<attempt, cancelled, reqID>>
    /\ UNCHANGED <<proc, nextID, now, cacheVars, regVars>>
    /\ UNCHANGED crashVars

\* A Run that retries after every failed runSidecar, also after the retry.
RunOnErrRetryAgain(c) ==
    /\ pc[c] = "failed"
    /\ stopLocked
    /\ recordCrash
    /\ err' = [err EXCEPT ![c] = "none"]
    /\ respID' = [respID EXCEPT ![c] = 0]
    /\ IF fallback'
       THEN /\ mu' = ""
            /\ pc' = [pc EXCEPT ![c] = "oneshotU"]
            /\ UNCHANGED <<attempt, reqID>>
       ELSE /\ attempt' = [attempt EXCEPT ![c] = 2]
            /\ pc' = [pc EXCEPT ![c] = "ensure"]
            /\ UNCHANGED <<mu, reqID>>
    /\ UNCHANGED <<cancelled, via>>
    /\ UNCHANGED <<nextID, now, cacheVars, regVars>>

\* A Run that returns the error of the failed attempt when recordCrash has
\* set b.fallback, instead of running the request one-shot.
RunOnErrSurface(c) ==
    /\ pc[c] = "failed"
    /\ stopLocked
    /\ IF attempt[c] = 1
       THEN /\ recordCrash
            /\ IF fallback'
               THEN /\ mu' = ""
                    /\ pc' = [pc EXCEPT ![c] = "done"]
                    /\ UNCHANGED <<attempt, err, respID, reqID>>
               ELSE /\ attempt' = [attempt EXCEPT ![c] = 2]
                    /\ pc' = [pc EXCEPT ![c] = "ensure"]
                    /\ err' = [err EXCEPT ![c] = "none"]
                    /\ respID' = [respID EXCEPT ![c] = 0]
                    /\ UNCHANGED <<mu, reqID>>
       ELSE /\ mu' = ""
            /\ pc' = [pc EXCEPT ![c] = "done"]
            /\ UNCHANGED <<attempt, err, respID, reqID>>
            /\ UNCHANGED crashVars
    /\ UNCHANGED <<cancelled, via>>
    /\ UNCHANGED <<nextID, now, cacheVars, regVars>>

\* A Run that returns the error of a failed retry with the sidecar left in
\* place.
RunOnErrKeep(c) ==
    /\ pc[c] = "failed"
    /\ IF attempt[c] = 1
       THEN /\ stopLocked
            /\ recordCrash
            /\ err' = [err EXCEPT ![c] = "none"]
            /\ respID' = [respID EXCEPT ![c] = 0]
            /\ IF fallback'
               THEN /\ mu' = ""
                    /\ pc' = [pc EXCEPT ![c] = "oneshotU"]
                    /\ reqID' = [reqID EXCEPT ![c] = 0]
                    /\ UNCHANGED attempt
               ELSE /\ attempt' = [attempt EXCEPT ![c] = 2]
                    /\ pc' = [pc EXCEPT ![c] = "ensure"]
                    /\ UNCHANGED <<mu, reqID>>
       ELSE /\ mu' = ""
            /\ pc' = [pc EXCEPT ![c] = "done"]
            /\ UNCHANGED <<proc, attempt, err, respID, reqID>>
            /\ UNCHANGED crashVars
    /\ UNCHANGED <<cancelled, via>>
    /\ UNCHANGED <<nextID, now, cacheVars, regVars>>

\* Run, err != nil from runSidecar.  First attempt: stopLocked, recordCrash,
\* then runSingleShot outside the mutex if that set b.fallback, else the retry;
\* either one replaces result and err (the values of the failed attempt are
\* dead and cleared here).  Retry: stopLocked and return the error.
RunOnErr(c) ==
    /\ pc[c] = "failed"
    /\ stopLocked
    /\ IF attempt[c] = 1
       THEN /\ recordCrash
            /\ err' = [err EXCEPT ![c] = "none"]
            /\ respID' = [respID EXCEPT ![c] = 0]
            /\ IF fallback'
               THEN /\ mu' = ""
                    /\ pc' = [pc EXCEPT ![c] = "oneshotU"]
                    /\ reqID' = [reqID EXCEPT ![c] = 0]
                    /\ UNCHANGED attempt
               ELSE /\ attempt' = [attempt EXCEPT ![c] = 2]
                    /\ pc' = [pc EXCEPT ![c] = "ensure"]
                    /\ UNCHANGED <<mu, reqID>>
       ELSE /\ mu' = ""
            /\ pc' = [pc EXCEPT ![c] = "done"]
            /\ UNCHANGED <<attempt, err, respID, reqID>>
            /\ UNCHANGED crashVars
    /\ UNCHANGED <<cancelled, via>>
    /\ UNCHANGED <<nextID, now, cacheVars, regVars>>

\* How a one-shot subprocess can end: parsed stdout, a non-zero exit (or
\* unparseable stdout), the b.timeout context, or the caller's context.
OneShotOutcomes(c) ==
    {"none", ErrExit, ErrTimeout} \cup (IF cancelled[c] THEN {ErrCtx} ELSE {})

\* runSingleShot, called at the top of Run ("oneshot") or after the mutex was
\* released on the fallback path ("oneshotU").
runSingleShot(c) ==
    /\ pc[c] \in {"oneshot", "oneshotU"}
    /\ \E o \in OneShotOutcomes(c) : err' = [err EXCEPT ![c] = o]
    /\ via' = [via EXCEPT ![c] = "oneshot"]
    /\ pc' = [pc EXCEPT ![c] = IF pc[c] = "oneshotU" THEN "relock" ELSE "done"]
    /\ UNCHANGED <<attempt, cancelled, reqID, respID>>
    /\ UNCHANGED <<mu, proc, nextID, now, cacheVars, regVars>>
    /\ UNCHANGED crashVars

\* A Run that returns from the fallback path without b.mu.Lock(): the
\* deferred Unlock releases the mutex whoever holds it.
RunRelockNoLock(c) ==
    /\ pc[c] = "relock"
    /\ mu' = ""
    /\ pc' = [pc EXCEPT ![c] = "done"]
    /\ UNCHANGED <<proc, nextID, now, cacheVars, regVars>>
    /\ UNCHANGED callerVars
    /\ UNCHANGED crashVars

\* Run, fallback path: b.mu.Lock() again, return r, e (the deferred Unlock).
RunRelock(c) ==
    /\ pc[c] = "relock"
    /\ mu = ""
    /\ pc' = [pc EXCEPT ![c] = "done"]
    /\ UNCHANGED <<mu, proc, nextID, now, cacheVars, regVars>>
    /\ UNCHANGED callerVars
    /\ UNCHANGED crashVars

\* The caller has Run's return value; it may call again.
RunReturn(c) ==
    /\ pc[c] = "done"
    /\ pc' = [pc EXCEPT ![c] = "idle"]
    /\ attempt' = [attempt EXCEPT ![c] = 1]
    /\ cancelled' = [cancelled EXCEPT ![c] = FALSE]
    /\ reqID' = [reqID EXCEPT ![c] = 0]
    /\ respID' = [respID EXCEPT ![c] = 0]
    /\ err' = [err EXCEPT ![c] = "none"]
    /\ via' = [via EXCEPT ![c] = "none"]
    /\ UNCHANGED <<mu, proc, nextID, now, cacheVars, regVars>>
    /\ UNCHANGED crashVars

\* ------------------------------------------------------------------ Close
\* A Close that does not wait for the mutex.
CloseLockNoWait ==
    /\ mu # "close"
    /\ mu' = "close"
    /\ UNCHANGED <<pc, proc, nextID, now, cacheVars, regVars>>
    /\ UNCHANGED callerVars
    /\ UNCHANGED crashVars

\* b.mu.Lock() of Close.
CloseLock ==
    /\ mu = ""
    /\ mu' = "close"
    /\ UNCHANGED <<pc, proc, nextID, now, cacheVars, regVars>>
    /\ UNCHANGED callerVars
    /\ UNCHANGED crashVars

\* Close under the mutex: stopLocked, then the deferred Unlock.
Close ==
    /\ mu = "close"
    /\ stopLocked
    /\ mu' = ""
    /\ UNCHANGED <<pc, nextID, now, cacheVars, regVars>>
    /\ UNCHANGED callerVars
    /\ UNCHANGED crashVars

\* ------------------------------------------------------------ environment
\* The caller's context is cancelled while its call is blocked (on the mutex,
\* on the ready line, on the response, or on the one-shot subprocess).
Cancel(c) ==
    /\ pc[c] \in {"lock", "handshake", "await", "oneshot", "oneshotU"}
    /\ ~cancelled[c]
    /\ cancelled' = [cancelled EXCEPT ![c] = TRUE]
    /\ UNCHANGED <<pc, attempt, reqID, respID, err, via>>
    /\ UNCHANGED <<mu, proc, nextID, now, cacheVars, regVars>>
    /\ UNCHANGED crashVars

\* Time passes.
Tick ==
    /\ now + TickStep <= MaxTime
    /\ now' = now + TickStep
    /\ UNCHANGED <<pc, mu, proc, nextID, cacheVars, regVars>>
    /\ UNCHANGED callerVars
    /\ UNCHANGED crashVars

\* The log is kept by the specification, not by the actions: Spec keeps none.
Next ==
    \/ \E c \in Callers : RunEnter(c) /\ UNCHANGED <<hist, tool, calls>>
    \/ \E c \in Callers : RunLock(c) /\ UNCHANGED <<hist, tool, calls>>
    \/ \E c \in Callers : ensureStarted(c) /\ UNCHANGED <<hist, tool, calls>>
    \/ \E c \in Callers : ensureStartedReady(c) /\ UNCHANGED <<hist, tool, calls>>
    \/ \E c \in Callers : runSidecarSelect(c) /\ UNCHANGED <<hist, tool, calls>>
    \/ \E c \in Callers : RunOnErr(c) /\ UNCHANGED <<hist, tool, calls>>
    \/ \E c \in Callers : runSingleShot(c) /\ UNCHANGED <<hist, tool, calls>>
    \/ \E c \in Callers : RunRelock(c) /\ UNCHANGED <<hist, tool, calls>>
    \/ \E c \in Callers : RunReturn(c) /\ UNCHANGED <<hist, tool, calls>>
    \/ \E c \in Callers : Cancel(c) /\ UNCHANGED <<hist, tool, calls>>
    \/ CloseLock /\ UNCHANGED <<hist, tool, calls>>
    \/ Close /\ UNCHANGED <<hist, tool, calls>>
    \/ Tick /\ UNCHANGED <<hist, tool, calls>>

Spec == Init /\ [][Next]_vars

\* ------------------------------------------------- scenarios with a log
\* The scenario specifications below run the same Run against an analyzer
\* that behaves in one given way, admit at most MaxCalls calls, and log every
\* call and every return in hist.
MaxCalls == 4

CallEvent(c) == [ev |-> "call", who |-> c, err |-> "none", via |-> "none"]
RetEvent(c, e, v) == [ev |-> "ret", who |-> c, err |-> e, via |-> v]
Calls(h) == SelectSeq(h, LAMBDA e : e.ev = "call")
Returns(h) == SelectSeq(h, LAMBDA e : e.ev = "ret")

\* A step of caller c, logged: the call when Run is entered, the return (with
\* the returned error and path) when Run reaches its return statement.
Log(c) ==
    hist' = IF pc[c] = "idle" /\ pc'[c] # "idle"
            THEN Append(hist, CallEvent(c))
            ELSE IF pc[c] # "done" /\ pc'[c] = "done"
                 THEN Append(hist, RetEvent(c, err'[c], via'[c]))
                 ELSE hist

\* Another call is admitted.
Admit == Len(Calls(hist)) < MaxCalls

\* Analyzer of the crash budget scenario: every sidecar process starts and
\* reaches EOF before a ready line; every one-shot subprocess returns a valid
\* result.  The calls follow each other within one clock reading.
NextBudget ==
    \/ \E c \in Callers : Admit /\ RunEnter(c) /\ Log(c) /\ UNCHANGED <<tool, calls>>
    \/ \E c \in Callers : RunLock(c) /\ Log(c) /\ UNCHANGED <<tool, calls>>
    \/ \E c \in Callers : ensureStarted(c) /\ pc'[c] = "handshake" /\ Log(c) /\ UNCHANGED <<tool, calls>>
    \/ \E c \in Callers : ensureStartedReady(c) /\ err'[c] = ErrStartup /\ Log(c) /\ UNCHANGED <<tool, calls>>
    \/ \E c \in Callers : RunOnErr(c) /\ Log(c) /\ UNCHANGED <<tool, calls>>
    \/ \E c \in Callers : runSingleShot(c) /\ err'[c] = "none" /\ Log(c) /\ UNCHANGED <<tool, calls>>
    \/ \E c \in Callers : RunRelock(c) /\ Log(c) /\ UNCHANGED <<tool, calls>>
    \/ \E c \in Callers : RunReturn(c) /\ Log(c) /\ UNCHANGED <<tool, calls>>

SpecBudget == Init /\ [][NextBudget]_vars

\* Analyzer of the crash recovery scenario: every process starts, sends its
\* ready line and reads its stdin; the first request ever written (ID 1) is
\* answered by EOF, every other one by a result carrying the request's ID.
\* The host may close the bridge between calls.
NextRecovery ==
    \/ \E c \in Callers : Admit /\ RunEnter(c) /\ Log(c) /\ UNCHANGED <<tool, calls>>
    \/ \E c \in Callers : RunLock(c) /\ Log(c) /\ UNCHANGED <<tool, calls>>
    \/ \E c \in Callers :
          ensureStarted(c) /\ pc'[c] \in {"handshake", "await"} /\ Log(c) /\ UNCHANGED <<tool, calls>>
    \/ \E c \in Callers : ensureStartedReady(c) /\ pc'[c] = "await" /\ Log(c) /\ UNCHANGED <<tool, calls>>
    \/ \E c \in Callers :
          /\ runSidecarSelect(c)
          /\ IF reqID[c] = 1
             THEN err'[c] = ErrEOF
             ELSE pc'[c] = "done" /\ respID'[c] = reqID[c]
          /\ Log(c) /\ UNCHANGED <<tool, calls>>
    \/ \E c \in Callers : RunOnErr(c) /\ Log(c) /\ UNCHANGED <<tool, calls>>
    \/ \E c \in Callers : RunReturn(c) /\ Log(c) /\ UNCHANGED <<tool, calls>>
    \/ CloseLock /\ UNCHANGED <<hist, tool, calls>>
    \/ Close /\ UNCHANGED <<hist, tool, calls>>

SpecRecovery == Init /\ [][NextRecovery]_vars

\* ------------------------------------------------------------- progress
\* Run against an analyzer that may do anything, with what the Go runtime and
\* the timers guarantee: a goroutine that can run does; a waiter for the
\* mutex gets it when it is released again and again (sync.Mutex starvation
\* mode); the select of runSidecar ends at the latest with its deadline;
\* stopLocked ends after its 2 s wait with a kill; a one-shot subprocess is
\* killed when its context times out.  Nothing makes a new process print a
\* ready line or exit, so the step that reads it is not fair.
NextLive ==
    \/ \E c \in Callers : RunEnter(c) /\ UNCHANGED <<hist, tool, calls>>
    \/ \E c \in Callers : RunLock(c) /\ UNCHANGED <<hist, tool, calls>>
    \/ \E c \in Callers : ensureStarted(c) /\ UNCHANGED <<hist, tool, calls>>
    \/ \E c \in Callers : ensureStartedReady(c) /\ UNCHANGED <<hist, tool, calls>>
    \/ \E c \in Callers : runSidecarSelect(c) /\ UNCHANGED <<hist, tool, calls>>
    \/ \E c \in Callers : RunOnErr(c) /\ UNCHANGED <<hist, tool, calls>>
    \/ \E c \in Callers : runSingleShot(c) /\ UNCHANGED <<hist, tool, calls>>
    \/ \E c \in Callers : RunRelock(c) /\ UNCHANGED <<hist, tool, calls>>
    \/ \E c \in Callers : RunReturn(c) /\ UNCHANGED <<hist, tool, calls>>

Fairness ==
    \A c \in Callers :
        /\ SF_vars(RunLock(c) /\ UNCHANGED <<hist, tool, calls>>)
        /\ WF_vars(ensureStarted(c) /\ UNCHANGED <<hist, tool, calls>>)
        /\ WF_vars(runSidecarSelect(c) /\ UNCHANGED <<hist, tool, calls>>)
        /\ WF_vars(RunOnErr(c) /\ UNCHANGED <<hist, tool, calls>>)
        /\ WF_vars(runSingleShot(c) /\ UNCHANGED <<hist, tool, calls>>)
        /\ SF_vars(RunRelock(c) /\ UNCHANGED <<hist, tool, calls>>)
        /\ WF_vars(RunReturn(c) /\ UNCHANGED <<hist, tool, calls>>)

SpecLive == Init /\ [][NextLive]_vars /\ Fairness

\* ------------------------------------------------------------ the mutex
\* Run and Close of two goroutines within one reading of the clock: every
\* interleaving of their steps on b.mu.
CallStep ==
    \/ \E c \in Callers : RunLock(c)
    \/ \E c \in Callers : ensureStarted(c)
    \/ \E c \in Callers : ensureStartedReady(c)
    \/ \E c \in Callers : runSidecarSelect(c)
    \/ \E c \in Callers : RunOnErr(c)
    \/ \E c \in Callers : runSingleShot(c)
    \/ \E c \in Callers : RunRelock(c)
    \/ Close

NextMutex ==
    \/ \E c \in Callers : RunEnter(c) /\ UNCHANGED <<hist, tool, calls>>
    \/ CallStep /\ UNCHANGED <<hist, tool, calls>>
    \/ \E c \in Callers : RunReturn(c) /\ UNCHANGED <<hist, tool, calls>>
    \/ \E c \in Callers : Cancel(c) /\ UNCHANGED <<hist, tool, calls>>
    \/ CloseLock /\ UNCHANGED <<hist, tool, calls>>

SpecMutex == Init /\ [][NextMutex]_vars

\* ================================================================== cache
\* One Cache (package cache), made by New(ttl, maxSize).  Its methods run under
\* c.mu from start to end, so each is one step.  Keys include the empty
\* string; the clock is the one of Tick.
Keys == {"", "k1", "k2"}
Hashes == {"h1", "h2"}
Values == {"v1", "v2"}
\* New's arguments: the TTL in seconds and the capacity.
ttl == 5
maxSize == 2

\* delete(m, k) and m[k] = e on a Go map.
Delete(m, k) == [x \in DOMAIN m \ {k} |-> m[x]]
Store(m, k, e) == [x \in DOMAIN m \cup {k} |-> IF x = k THEN e ELSE m[x]]

\* The history lp of latest Puts, kept for the keys the map m still holds.
Stored(lp, m) == [x \in DOMAIN lp \cap DOMAIN m |-> lp[x]]

Miss(k, h) ==
    [op |-> "Get", key |-> k, mtimeHash |-> h, value |-> "", ok |-> FALSE,
     called |-> TRUE, deleted |-> FALSE]
\* A miss of Get's second branch, which deletes the entry it found.
Stale(k, h) == [Miss(k, h) EXCEPT !.deleted = TRUE]
Hit(k, h, v) ==
    [op |-> "Get", key |-> k, mtimeHash |-> h, value |-> v, ok |-> TRUE,
     called |-> TRUE, deleted |-> FALSE]
\* Put and Invalidate return nothing.
Returned(op, k) ==
    [op |-> op, key |-> k, mtimeHash |-> "", value |-> "", ok |-> FALSE,
     called |-> FALSE, deleted |-> FALSE]

\* An Invalidate that empties the map.
InvalidateClear(k) ==
    /\ entries' = EmptyMap
    /\ ret' = Returned("Invalidate", k)
    /\ lastPut' = Stored(lastPut, entries')
    /\ UNCHANGED now
    /\ UNCHANGED bridgeVars
    /\ UNCHANGED regVars

\* A Get that does not look at the age of the entry.
GetNoTTL(k, h) ==
    /\ IF k \notin DOMAIN entries
       THEN /\ ret' = Miss(k, h)
            /\ UNCHANGED entries
       ELSE IF entries[k].mtimeHash # h
            THEN /\ entries' = Delete(entries, k)
                 /\ ret' = Stale(k, h)
            ELSE /\ entries' = [entries EXCEPT ![k].lastUsed = now]
                 /\ ret' = Hit(k, h, entries[k].value)
    /\ lastPut' = Stored(lastPut, entries')
    /\ UNCHANGED now
    /\ UNCHANGED bridgeVars
    /\ UNCHANGED regVars

\* A Get that misses on another hash but leaves the entry in the map.
GetKeepStale(k, h) ==
    /\ IF k \notin DOMAIN entries
       THEN /\ ret' = Miss(k, h)
            /\ UNCHANGED entries
       ELSE IF entries[k].mtimeHash # h
            THEN /\ ret' = Miss(k, h)
                 /\ UNCHANGED entries
            ELSE IF now - entries[k].cachedAt > ttl
                 THEN /\ entries' = Delete(entries, k)
                      /\ ret' = Stale(k, h)
                 ELSE /\ entries' = [entries EXCEPT ![k].lastUsed = now]
                      /\ ret' = Hit(k, h, entries[k].value)
    /\ lastPut' = Stored(lastPut, entries')
    /\ UNCHANGED now
    /\ UNCHANGED bridgeVars
    /\ UNCHANGED regVars

\* A Get whose hit renews the entry's cachedAt.
GetRenew(k, h) ==
    /\ IF k \notin DOMAIN entries
       THEN /\ ret' = Miss(k, h)
            /\ UNCHANGED entries
       ELSE IF entries[k].mtimeHash # h \/ now - entries[k].cachedAt > ttl
            THEN /\ entries' = Delete(entries, k)
                 /\ ret' = Stale(k, h)
            ELSE /\ entries' = [entries EXCEPT ![k].lastUsed = now,
                                                ![k].cachedAt = now]
                 /\ ret' = Hit(k, h, entries[k].value)
    /\ lastPut' = Stored(lastPut, entries')
    /\ UNCHANGED now
    /\ UNCHANGED bridgeVars
    /\ UNCHANGED regVars

\* Cache.Get: absent: miss; other hash, or older than ttl: delete and miss;
\* else touch lastUsed and return the value.
Get(k, h) ==
    /\ IF k \notin DOMAIN entries
       THEN /\ ret' = Miss(k, h)
            /\ UNCHANGED entries
       ELSE IF entries[k].mtimeHash # h \/ now - entries[k].cachedAt > ttl
            THEN /\ entries' = Delete(entries, k)
                 /\ ret' = Stale(k, h)
            ELSE /\ entries' = [entries EXCEPT ![k].lastUsed = now]
                 /\ ret' = Hit(k, h, entries[k].value)
    /\ lastPut' = Stored(lastPut, entries')
    /\ UNCHANGED now
    /\ UNCHANGED bridgeVars
    /\ UNCHANGED regVars

\* The keys evictLRU's loop can end with: the range over the map visits the
\* keys in any order and keeps the first one whose lastUsed no other
\* undercuts, so any key with the smallest lastUsed.
Oldest(m) ==
    {k \in DOMAIN m : \A x \in DOMAIN m : m[k].lastUsed <= m[x].lastUsed}

\* Cache.evictLRU with oldestKey as found by the loop: the entry is deleted
\* if oldestKey != "".
evictLRU(m, oldestKey) ==
    IF oldestKey # "" THEN Delete(m, oldestKey) ELSE m

\* Cache.Put: evictLRU if the key is new and the map is at capacity, then
\* store the entry with cachedAt = lastUsed = now.
Put(k, h, v) ==
    /\ \E oldestKey \in (IF k \notin DOMAIN entries
                              /\ Cardinality(DOMAIN entries) >= maxSize
                          THEN Oldest(entries) ELSE {k}) :
          entries' = Store(IF k \notin DOMAIN entries
                              /\ Cardinality(DOMAIN entries) >= maxSize
                           THEN evictLRU(entries, oldestKey) ELSE entries,
                           k,
                           [value |-> v, cachedAt |-> now,
                            mtimeHash |-> h, lastUsed |-> now])
    /\ lastPut' = Stored(Store(lastPut, k,
                                [mtimeHash |-> h, value |-> v, at |-> now]),
                          entries')
    /\ ret' = Returned("Put", k)
    /\ UNCHANGED now
    /\ UNCHANGED bridgeVars
    /\ UNCHANGED regVars

\* Cache.Invalidate.
Invalidate(k) ==
    /\ entries' = Delete(entries, k)
    /\ ret' = Returned("Invalidate", k)
    /\ lastPut' = Stored(lastPut, entries')
    /\ UNCHANGED now
    /\ UNCHANGED bridgeVars
    /\ UNCHANGED regVars

NextCache ==
    \/ \E k \in Keys : \E h \in Hashes : Get(k, h) /\ UNCHANGED <<tool, calls>>
    \/ \E k \in Keys : \E h \in Hashes : \E v \in Values :
          Put(k, h, v) /\ UNCHANGED <<tool, calls>>
    \/ \E k \in Keys : Invalidate(k) /\ UNCHANGED <<tool, calls>>
    \/ Tick /\ UNCHANGED <<hist, tool, calls>>

SpecCache == Init /\ [][NextCache]_vars

\* =============================================================== registry
\* Package registry: Scan, Resolve and MtimeHash over the directory tree.
\* The workspace root holds package.json and go.mod, every directory named
\* "a" holds setup.py, the other directories hold no marker file.
MarkerFiles(dir) ==
    IF dir = R THEN {"package.json", "go.mod"}
    ELSE IF Base(dir) = "a" THEN {"setup.py"} ELSE {}

\* detectLanguage: the language of the first marker, in this order, that the
\* directory holds.
LanguageMarkers ==
    <<[file |-> "go.mod", lang |-> "go"],
      [file |-> "pyproject.toml", lang |-> "python"],
      [file |-> "setup.py", lang |-> "python"],
      [file |-> "package.json", lang |-> "typescript"],
      [file |-> "Cargo.toml", lang |-> "rust"],
      [file |-> "build.gradle", lang |-> "java"],
      [file |-> "pom.xml", lang |-> "java"]>>
detectLanguage(projectPath) ==
    LET found == {i \in 1..Len(LanguageMarkers) :
                      LanguageMarkers[i].file \in MarkerFiles(projectPath)}
    IN  IF found = {} THEN "unknown"
        ELSE LanguageMarkers[CHOOSE i \in found :
                                 \A j \in found : i <= j].lang

\* A .git entry is an empty directory, so readGitBranch finds no HEAD.
readGitBranch(gitDir) == ""

\* os.Stat(filepath.Join(dir, ".git")) succeeds.
HasGit(g, dir) == dir \in g

\* The names of os.ReadDir, which returns them sorted by filename.
ReadDir == <<".h", "a", "b">>

\* The Project Scan builds for a project directory below a group directory.
ScanProject(group, sub) ==
    [Name |-> sub,
     Path |-> R \o <<group, sub>>,
     Language |-> detectLanguage(R \o <<group, sub>>),
     Group |-> group,
     GitBranch |-> readGitBranch(R \o <<group, sub>>)]

\* The Project Scan prepends when the root itself holds .git: no Group.
RootProject ==
    [Name |-> Base(R),
     Path |-> R,
     Language |-> detectLanguage(R),
     Group |-> "",
     GitBranch |-> readGitBranch(R)]

\* The inner loop of Scan over the entries of one group directory, from the
\* i-th on: the non-hidden ones that hold .git, in ReadDir order.
RECURSIVE SubLoop(_, _, _)
SubLoop(g, group, i) ==
    IF i > Len(ReadDir) THEN <<>>
    ELSE (IF ~Hidden(ReadDir[i]) /\ HasGit(g, R \o <<group, ReadDir[i]>>)
          THEN <<ScanProject(group, ReadDir[i])>> ELSE <<>>)
         \o SubLoop(g, group, i + 1)

\* The outer loop of Scan over the entries of the root, from the i-th on:
\* hidden group directories are skipped.
RECURSIVE GroupLoop(_, _)
GroupLoop(g, i) ==
    IF i > Len(ReadDir) THEN <<>>
    ELSE (IF Hidden(ReadDir[i]) THEN <<>> ELSE SubLoop(g, ReadDir[i], 1))
         \o GroupLoop(g, i + 1)

\* The projects of Scan before the sort: the root project, if any, first.
Collected(g) ==
    (IF HasGit(g, R) THEN <<RootProject>> ELSE <<>>) \o GroupLoop(g, 1)

\* A less function that compares the names only.
LessByName(p, q) == Rank(p.Name) < Rank(q.Name)

\* The less function Scan hands to sort.Slice.
Less(p, q) ==
    IF p.Group # q.Group
    THEN Rank(p.Group) < Rank(q.Group)
    ELSE Rank(p.Name) < Rank(q.Name)

\* sort.Slice(s, less) is not stable: it may leave any permutation of s in
\* which no element is less than one before it.
SortSlice(s) ==
    {[i \in 1..Len(s) |-> s[f[i]]] :
        f \in {f \in [1..Len(s) -> 1..Len(s)] :
                  /\ \A i, j \in 1..Len(s) : i # j => f[i] # f[j]
                  /\ \A i, j \in 1..Len(s) : i < j => ~Less(s[f[j]], s[f[i]])}}

\* Scan without the root project (lines 63-72 removed).
ScanGroupsOnly ==
    /\ walk.state # "walking"
    /\ \E s \in SortSlice(GroupLoop(git, 1)) :
          scanned' = [ok |-> TRUE, list |-> s, again |-> scanned.ok]
    /\ UNCHANGED <<git, walk, mtime, now>>
    /\ UNCHANGED timer
    /\ UNCHANGED cacheVars
    /\ UNCHANGED bridgeVars

\* registry.Scan(R): R is readable, so no error.
Scan ==
    /\ walk.state # "walking"
    /\ \E s \in SortSlice(Collected(git)) :
          scanned' = [ok |-> TRUE, list |-> s, again |-> scanned.ok]
    /\ UNCHANGED <<git, walk, mtime, now>>
    /\ UNCHANGED timer
    /\ UNCHANGED cacheVars
    /\ UNCHANGED bridgeVars

\* The Project Resolve returns for the directory where it found .git.
ResolveProject(current) ==
    [Name |-> Base(current),
     Path |-> current,
     Language |-> detectLanguage(current),
     Group |-> IF Dir(current) # current THEN Base(Dir(current)) ELSE "",
     GitBranch |-> readGitBranch(current)]

\* registry.Resolve(path) is called: current = the absolute path.
ResolveEnter(path) ==
    /\ walk.state # "walking"
    /\ walk' = [state |-> "walking", path |-> path, current |-> path,
                project |-> NoProject]
    /\ UNCHANGED <<git, scanned, mtime, now>>
    /\ UNCHANGED timer
    /\ UNCHANGED cacheVars
    /\ UNCHANGED bridgeVars

\* One round of Resolve's loop that returns the parent's project whether or
\* not current holds .git.
ResolveStepSkip ==
    /\ walk.state = "walking"
    /\ walk' = IF HasGit(git, Dir(walk.current))
               THEN [walk EXCEPT !.state = "found",
                                 !.project = ResolveProject(Dir(walk.current))]
               ELSE IF Dir(walk.current) = walk.current
                    THEN [walk EXCEPT !.state = "failed"]
                    ELSE [walk EXCEPT !.current = Dir(walk.current)]
    /\ UNCHANGED <<git, scanned, mtime, now>>
    /\ UNCHANGED timer
    /\ UNCHANGED cacheVars
    /\ UNCHANGED bridgeVars

\* One round of Resolve's loop that gives up below the filesystem root,
\* without looking into it.
ResolveStepStopEarly ==
    /\ walk.state = "walking"
    /\ walk' = IF HasGit(git, walk.current)
               THEN [walk EXCEPT !.state = "found",
                                 !.project = ResolveProject(walk.current)]
               ELSE IF Len(walk.current) <= 1
                    THEN [walk EXCEPT !.state = "failed"]
                    ELSE [walk EXCEPT !.current = Dir(walk.current)]
    /\ UNCHANGED <<git, scanned, mtime, now>>
    /\ UNCHANGED timer
    /\ UNCHANGED cacheVars
    /\ UNCHANGED bridgeVars

\* One round of Resolve's loop: return the project of current if it holds
\* .git; give up with the error if current is its own parent; else go up.
ResolveStep ==
    /\ walk.state = "walking"
    /\ walk' = IF HasGit(git, walk.current)
               THEN [walk EXCEPT !.state = "found",
                                 !.project = ResolveProject(walk.current)]
               ELSE IF Dir(walk.current) = walk.current
                    THEN [walk EXCEPT !.state = "failed"]
                    ELSE [walk EXCEPT !.current = Dir(walk.current)]
    /\ UNCHANGED <<git, scanned, mtime, now>>
    /\ UNCHANGED timer
    /\ UNCHANGED cacheVars
    /\ UNCHANGED bridgeVars

\* The environment creates a repository: a directory gets a .git entry.  The
\* tree is not changed while a Resolve call walks it, and what Scan and
\* Resolve returned for the tree before the change is forgotten.
GitInit(d) ==
    /\ walk.state # "walking"
    /\ d \notin git
    /\ Cardinality(git) < MaxGit
    /\ git' = git \cup {d}
    /\ scanned' = NoScan
    /\ walk' = NoWalk
    /\ UNCHANGED <<mtime, now>>
    /\ UNCHANGED timer
    /\ UNCHANGED cacheVars
    /\ UNCHANGED bridgeVars

NextRegistry ==
    \/ Scan /\ UNCHANGED <<tool, calls>>
    \/ \E path \in Dirs : ResolveEnter(path) /\ UNCHANGED <<tool, calls>>
    \/ ResolveStep /\ UNCHANGED <<tool, calls>>
    \/ \E d \in Dirs : GitInit(d) /\ UNCHANGED <<tool, calls>>

SpecRegistry == Init /\ [][NextRegistry]_vars

\* ------------------------------------------------------------ MtimeHash
\* The extensions MtimeHash hashes.
SourceExts ==
    {".py", ".go", ".ts", ".js", ".rs", ".java", ".c", ".h", ".cpp", ".hpp"}

\* The directories MtimeHash does not descend into.
SkipDir(name) ==
    Hidden(name) \/ name \in {"vendor", "node_modules", "__pycache__", "venv"}

\* WalkDir reaches the file: none of its directories is skipped.
Walked(f) == \A i \in 1..Len(f.dir) : ~SkipDir(f.dir[i])

\* The files in the byte order of their paths, the order sort.Strings gives
\* the entries ('.' < 'R' < 'a' < 'm' < 'v').
FileOrder ==
    <<[dir |-> <<".h">>, name |-> "h", ext |-> ".go"],
      [dir |-> <<>>, name |-> "README", ext |-> ".md"],
      [dir |-> <<"a">>, name |-> "x", ext |-> ".py"],
      [dir |-> <<>>, name |-> "main", ext |-> ".go"],
      [dir |-> <<"vendor">>, name |-> "v", ext |-> ".go"]>>

\* The entries of MtimeHash from the i-th file on, one "path:mtime" per file
\* that is reached and has a source extension (as the pair of the two).
RECURSIVE HashEntries(_, _)
HashEntries(mt, i) ==
    IF i > Len(FileOrder) THEN <<>>
    ELSE (IF Walked(FileOrder[i]) /\ FileOrder[i].ext \in SourceExts
          THEN <<<<FileOrder[i], mt[FileOrder[i]]>>>> ELSE <<>>)
         \o HashEntries(mt, i + 1)

\* A digest of the paths alone, whatever the modification times.
MtimeHashPaths(mt) == HashEntries([f \in Files |-> 0], 1)

\* registry.MtimeHash of the project with modification times mt.  SHA-256 is
\* taken to be free of collisions: the digest stands for the entries hashed.
MtimeHash(mt) == HashEntries(mt, 1)

\* The environment changes the modification time of one file.
Touch(f, t) ==
    /\ t # mtime[f]
    /\ mtime' = [mtime EXCEPT ![f] = t]
    /\ UNCHANGED <<git, scanned, walk, now>>
    /\ UNCHANGED timer
    /\ UNCHANGED cacheVars
    /\ UNCHANGED bridgeVars

NextFingerprint ==
    \E f \in Files : \E t \in 1..MaxMtime : Touch(f, t) /\ UNCHANGED <<tool, calls>>

SpecFingerprint == Init /\ [][NextFingerprint]_vars

\* ================================================================== tools
\* Package tools: the handlers of project_registry, resolve_project,
\* agent_map and of the tools that go through Bridge.Run (code_structure,
\* impact_analysis).  One tool call is in progress at a time; tool holds its
\* name, arguments and position, and what the handler returned.
\* projectCache is the Cache above, cache.New(5 minutes, 10) in the code,
\* with the keys being root paths; its time to live is ttl ticks of the clock.

\* The root arguments: none, the workspace root, a directory that is not
\* there.  os.Getwd returns the workspace root.
RootArgs == {"", "w", "x"}
Cwd == "w"
\* registry.Scan(root) can read the root.
Readable(root) == root = Base(R)

\* mcp.NewToolResultError(msg), and jsonResult(v): json.Marshal of the values
\* the handlers pass cannot fail, the text is the JSON document of v.
ToolResultError(msg) == [isError |-> TRUE, kind |-> "error", body |-> msg]
jsonResult(v) == [isError |-> FALSE, kind |-> "text", body |-> [json |-> v]]

\* The handler returns res; the error slot is nil in every return statement.
Return(name, args, res, scans, ran) ==
    [name |-> name, state |-> "idle", args |-> args, result |-> res,
     goErr |-> "nil", scans |-> scans, ran |-> ran]
\* The handler is at position st.
At(name, args, st, ran) ==
    [name |-> name, state |-> st, args |-> args, result |-> NoResult,
     goErr |-> "nil", scans |-> 0, ran |-> ran]

\* project_registry that never asks the cache.
ProjectRegistryCallNoCache(root, refresh, getwdOk) ==
    LET key == IF root = "" THEN Cwd ELSE root
        args == [root |-> key, refresh |-> refresh]
    IN  /\ tool.state = "idle"
        /\ IF root = "" /\ ~getwdOk
           THEN tool' = Return("project_registry",
                               [root |-> "", refresh |-> refresh],
                               ToolResultError("getwd"), 0, FALSE)
           ELSE tool' = At("project_registry", args, "scan", FALSE)
        /\ UNCHANGED <<now, cacheVars, bridgeVars, regVars>>

\* project_registry, up to the cache lookup: the root defaults to the
\* working directory; unless refresh is set, projectCache.Get(root, "") is
\* asked and a hit is returned.
ProjectRegistryCall(root, refresh, getwdOk) ==
    LET key == IF root = "" THEN Cwd ELSE root
        args == [root |-> key, refresh |-> refresh]
    IN  /\ tool.state = "idle"
        /\ IF root = "" /\ ~getwdOk
           THEN /\ tool' = Return("project_registry",
                                  [root |-> "", refresh |-> refresh],
                                  ToolResultError("getwd"), 0, FALSE)
                /\ UNCHANGED <<now, cacheVars, bridgeVars, regVars>>
           ELSE IF refresh
                THEN /\ tool' = At("project_registry", args, "scan", FALSE)
                     /\ UNCHANGED <<now, cacheVars, bridgeVars, regVars>>
                ELSE /\ Get(key, "")
                     /\ tool' = IF ret'.ok
                                THEN Return("project_registry", args,
                                            jsonResult(ret'.value), 0, FALSE)
                                ELSE At("project_registry", args, "scan", FALSE)

\* project_registry, from registry.Scan on: a scan error is returned as an
\* error result, else the list is stored with projectCache.Put(root, "", ...)
\* and returned.
ProjectRegistryScan ==
    /\ tool.name = "project_registry"
    /\ tool.state = "scan"
    /\ IF ~Readable(tool.args.root)
       THEN /\ tool' = Return("project_registry", tool.args,
                              ToolResultError("scan"), 1, FALSE)
            /\ UNCHANGED <<now, cacheVars, bridgeVars, regVars>>
       ELSE \E s \in SortSlice(Collected(git)) :
               /\ Put(tool.args.root, "", s)
               /\ tool' = Return("project_registry", tool.args,
                                 jsonResult(s), 1, FALSE)


\* resolve_project, up to the call of registry.Resolve: an absent or empty
\* path is answered with an error result.
ResolveProjectCall(missing, path) ==
    /\ tool.state = "idle"
    /\ IF missing
       THEN /\ tool' = Return("resolve_project", [missing |-> TRUE],
                              ToolResultError("path is required"), 0, FALSE)
            /\ UNCHANGED <<now, cacheVars, bridgeVars, regVars>>
       ELSE /\ ResolveEnter(path)
            /\ tool' = At("resolve_project", [missing |-> FALSE], "resolve",
                          FALSE)

\* resolve_project while Resolve walks, and its return: the error of
\* Resolve as an error result, else the project as JSON.
ResolveProjectStep ==
    /\ tool.name = "resolve_project"
    /\ tool.state = "resolve"
    /\ ResolveStep
    /\ tool' = CASE walk'.state = "found" ->
                       Return("resolve_project", tool.args,
                              jsonResult(walk'.project), 0, FALSE)
                 [] walk'.state = "failed" ->
                       Return("resolve_project", tool.args,
                              ToolResultError("not within any git project"),
                              0, FALSE)
                 [] OTHER -> tool

\* The agents and reservations the agent service lists when it answers.
Agents == <<[AgentID |-> "ag1", Project |-> "a"]>>
Reservations ==
    <<[AgentID |-> "ag1", Pattern |-> "*.go", IsActive |-> TRUE],
      [AgentID |-> "ag1", Pattern |-> "*.py", IsActive |-> FALSE]>>

\* strings.Contains(p.Path, agent.Project) || strings.Contains(agent.Project,
\* p.Name), for the one-letter project field of Agents.
Contains(p, project) ==
    (\E i \in 1..Len(p.Path) : p.Path[i] = project) \/ p.Name = project

\* The ProjectPath of an agent's overlay: the project of that name (the last
\* one in the list, as projectByName is filled in list order), else the first
\* project that matches by containment, else none.
RECURSIVE FirstContaining(_, _, _)
FirstContaining(projects, project, i) ==
    IF i > Len(projects) THEN <<>>
    ELSE IF Contains(projects[i], project) THEN projects[i].Path
         ELSE FirstContaining(projects, project, i + 1)
ProjectPath(projects, project) ==
    LET named == {i \in 1..Len(projects) : projects[i].Name = project}
    IN  IF named # {}
        THEN projects[CHOOSE i \in named : \A j \in named : j <= i].Path
        ELSE FirstContaining(projects, project, 1)

\* The overlay entries of agent_map.
Overlays(projects, reservations) ==
    [i \in 1..Len(Agents) |->
        [AgentID |-> Agents[i].AgentID,
         Project |-> Agents[i].Project,
         ProjectPath |-> ProjectPath(projects, Agents[i].Project),
         Reservations |->
             LET active ==
                     SelectSeq(reservations,
                               LAMBDA r : r.IsActive
                                          /\ r.AgentID = Agents[i].AgentID)
             IN  [j \in 1..Len(active) |-> active[j].Pattern]]]

\* The AgentMapResult of agent_map for the scanned projects: configured is
\* c.Available(); agentsOk and reservationsOk tell whether ListAgents and
\* ListReservations succeed.
AgentMapResult(projects, configured, agentsOk, reservationsOk) ==
    IF ~configured
    THEN [agents |-> <<>>, agents_available |-> FALSE,
          agents_error |-> "intermute not configured",
          project_count |-> Len(projects)]
    ELSE IF ~agentsOk
         THEN [agents |-> <<>>, agents_available |-> TRUE,
               agents_error |-> "intermute unreachable",
               project_count |-> Len(projects)]
         ELSE [agents |-> Overlays(projects,
                                   IF reservationsOk THEN Reservations ELSE <<>>),
               agents_available |-> TRUE,
               agents_error |-> IF reservationsOk THEN ""
                                ELSE "reservations unavailable",
               project_count |-> Len(projects)]

\* agent_map that returns an error result when ListAgents fails.
AgentMapFailing(root, getwdOk, configured, agentsOk, reservationsOk) ==
    LET key == IF root = "" THEN Cwd ELSE root
        args == [root |-> IF root = "" /\ ~getwdOk THEN "" ELSE key,
                 configured |-> configured, agentsOk |-> agentsOk]
    IN  /\ tool.state = "idle"
        /\ IF root = "" /\ ~getwdOk
           THEN tool' = Return("agent_map", args, ToolResultError("getwd"),
                               0, FALSE)
           ELSE IF ~Readable(key)
                THEN tool' = Return("agent_map", args, ToolResultError("scan"),
                                    1, FALSE)
                ELSE IF configured /\ ~agentsOk
                     THEN tool' = Return("agent_map", args,
                                         ToolResultError("intermute unreachable"),
                                         1, FALSE)
                     ELSE \E s \in SortSlice(Collected(git)) :
                             tool' = Return("agent_map", args,
                                            jsonResult(AgentMapResult(
                                                s, configured, agentsOk,
                                                reservationsOk)),
                                            1, FALSE)
        /\ UNCHANGED <<now, cacheVars, bridgeVars, regVars>>

\* agent_map: the root defaults to the working directory; the projects are
\* scanned (no cache); the agent service is asked if it is configured.
AgentMap(root, getwdOk, configured, agentsOk, reservationsOk) ==
    LET key == IF root = "" THEN Cwd ELSE root
        args == [root |-> IF root = "" /\ ~getwdOk THEN "" ELSE key,
                 configured |-> configured, agentsOk |-> agentsOk]
    IN  /\ tool.state = "idle"
        /\ IF root = "" /\ ~getwdOk
           THEN tool' = Return("agent_map", args, ToolResultError("getwd"),
                               0, FALSE)
           ELSE IF ~Readable(key)
                THEN tool' = Return("agent_map", args, ToolResultError("scan"),
                                    1, FALSE)
                ELSE \E s \in SortSlice(Collected(git)) :
                        tool' = Return("agent_map", args,
                                       jsonResult(AgentMapResult(
                                           s, configured, agentsOk,
                                           reservationsOk)),
                                       1, FALSE)
        /\ UNCHANGED <<now, cacheVars, bridgeVars, regVars>>


\* The tools that go through Bridge.Run, the arguments each requires, and
\* the argument maps of the calls: "" is an absent, empty or wrong-typed
\* argument.
BridgeTools == {"code_structure", "impact_analysis"}
Required(name) ==
    IF name = "impact_analysis" THEN {"project", "target"} ELSE {"project"}
BridgeArgs == [{"project", "target"} -> {"", "p"}]
Missing(name, a) == \E r \in Required(name) : a[r] = ""

\* A handler that calls Run without looking at its arguments.
BridgeToolCallNoCheck(name, a, c) ==
    /\ tool.state = "idle"
    /\ RunEnter(c)
    /\ UNCHANGED hist
    /\ tool' = At(name, a, "run", TRUE)

\* The handler of a bridge tool up to bridge.Run: a required argument that
\* is missing is answered with an error result; else Run is entered.
BridgeToolCall(name, a, c) ==
    /\ tool.state = "idle"
    /\ IF Missing(name, a)
       THEN /\ tool' = Return(name, a, ToolResultError("is required"), 0, FALSE)
            /\ UNCHANGED <<now, cacheVars, bridgeVars, regVars>>
       ELSE /\ RunEnter(c)
            /\ UNCHANGED hist
            /\ tool' = At(name, a, "run", TRUE)

\* The handler of a bridge tool from the return of bridge.Run on: the error
\* of Run as an error result, else the result as JSON.
BridgeToolReturn(c) ==
    /\ tool.state = "run"
    /\ RunReturn(c)
    /\ UNCHANGED hist
    /\ tool' = Return(tool.name, tool.args,
                      IF err[c] # "none"
                      THEN ToolResultError(err[c])
                      ELSE jsonResult([via |-> via[c], id |-> respID[c]]),
                      0, TRUE)

\* The paths resolve_project is called with, and the directories that become
\* repositories, in the runs of the tools.
ToolPaths == {R \o <<"a", "a", "a">>, R \o <<"b">>}
ToolRepos == {R, R \o <<"a", "a">>}

\* os.Getwd is only called, and so can only fail, when no root is given.
Getwd(root) == IF root = "" THEN BOOLEAN ELSE {TRUE}
\* The agent service: not configured; configured and unreachable; reachable
\* with ListReservations failing; answering both requests.
Services ==
    {<<FALSE, FALSE, FALSE>>, <<TRUE, FALSE, FALSE>>, <<TRUE, TRUE, FALSE>>,
     <<TRUE, TRUE, TRUE>>}

\* The registry tools called by one client that waits for each answer; time
\* passes and repositories appear between and during the calls.
NextTools ==
    \/ \E root \in RootArgs : \E refresh \in BOOLEAN : \E getwdOk \in Getwd(root) :
          ProjectRegistryCall(root, refresh, getwdOk) /\ UNCHANGED calls
    \/ ProjectRegistryScan /\ UNCHANGED calls
    \/ \E root \in RootArgs : \E getwdOk \in Getwd(root) : \E svc \in Services :
          AgentMap(root, getwdOk, svc[1], svc[2], svc[3]) /\ UNCHANGED calls
    \/ Tick /\ UNCHANGED <<hist, tool, calls>>
    \/ \E d \in ToolRepos : GitInit(d) /\ UNCHANGED <<tool, calls>>

SpecTools == Init /\ [][NextTools]_vars

\* All the tools called by one client that waits for each answer, with the
\* handler goroutine "a" in Run, within one reading of the clock.
NextHandlers ==
    \/ \E root \in RootArgs : \E refresh \in BOOLEAN : \E getwdOk \in Getwd(root) :
          ProjectRegistryCall(root, refresh, getwdOk) /\ UNCHANGED calls
    \/ ProjectRegistryScan /\ UNCHANGED calls
    \/ \E missing \in BOOLEAN : \E path \in ToolPaths :
          ResolveProjectCall(missing, path) /\ UNCHANGED calls
    \/ ResolveProjectStep /\ UNCHANGED calls
    \/ \E root \in RootArgs : \E getwdOk \in Getwd(root) : \E svc \in Services :
          AgentMap(root, getwdOk, svc[1], svc[2], svc[3]) /\ UNCHANGED calls
    \/ \E name \in BridgeTools : \E a \in BridgeArgs :
          BridgeToolCall(name, a, "a") /\ UNCHANGED calls
    \/ RunLock("a") /\ UNCHANGED <<hist, tool, calls>>
    \/ ensureStarted("a") /\ UNCHANGED <<hist, tool, calls>>
    \/ ensureStartedReady("a") /\ UNCHANGED <<hist, tool, calls>>
    \/ runSidecarSelect("a") /\ UNCHANGED <<hist, tool, calls>>
    \/ RunOnErr("a") /\ UNCHANGED <<hist, tool, calls>>
    \/ runSingleShot("a") /\ UNCHANGED <<hist, tool, calls>>
    \/ RunRelock("a") /\ UNCHANGED <<hist, tool, calls>>
    \/ BridgeToolReturn("a") /\ UNCHANGED calls
    \/ \E d \in ToolRepos : GitInit(d) /\ UNCHANGED <<tool, calls>>

SpecHandlers == Init /\ [][NextHandlers]_vars

\* ------------------------------------------- concurrent project_registry
\* The handler as each of two goroutines runs it, one statement at a time:
\* calls[c] holds the goroutine's position, its arguments, whether its lookup
\* missed, the list its Scan returned and the result it returned last.
\* os.ReadDir of the root can fail at any call (the directory is removed or
\* made unreadable, the process is out of file descriptors).
Roots == {"w"}

\* The handler up to the lookup: with refresh the cache is not asked; else a
\* hit is returned and a miss goes on to registry.Scan.
HandlerCall(c, root, refresh) ==
    /\ calls[c].state = "idle"
    /\ IF refresh
       THEN /\ calls' = [calls EXCEPT ![c] =
                            [state |-> "scan", root |-> root,
                             refresh |-> TRUE, missed |-> FALSE,
                             projects |-> <<>>, result |-> NoResult]]
            /\ UNCHANGED <<now, cacheVars, bridgeVars, regVars>>
       ELSE /\ Get(root, "")
            /\ calls' = [calls EXCEPT ![c] =
                            IF ret'.ok
                            THEN [state |-> "idle", root |-> root,
                                  refresh |-> FALSE, missed |-> FALSE,
                                  projects |-> <<>>,
                                  result |-> jsonResult(ret'.value)]
                            ELSE [state |-> "scan", root |-> root,
                                  refresh |-> FALSE, missed |-> TRUE,
                                  projects |-> <<>>, result |-> NoResult]]

\* A handler whose failed scan also drops the cached list.
HandlerScanDropping(c, readOk) ==
    /\ calls[c].state = "scan"
    /\ IF ~readOk
       THEN /\ calls' = [calls EXCEPT ![c].state = "idle",
                                      ![c].result = ToolResultError("scan")]
            /\ Invalidate(calls[c].root)
       ELSE /\ \E s \in SortSlice(Collected(git)) :
                 calls' = [calls EXCEPT ![c].state = "put",
                                        ![c].projects = s]
            /\ UNCHANGED <<now, cacheVars, bridgeVars, regVars>>

\* registry.Scan(root) and the handler's error check: a failed scan is
\* returned as an error result, else the handler goes on with the list.
HandlerScan(c, readOk) ==
    /\ calls[c].state = "scan"
    /\ IF ~readOk
       THEN calls' = [calls EXCEPT ![c].state = "idle",
                                   ![c].result = ToolResultError("scan")]
       ELSE \E s \in SortSlice(Collected(git)) :
               calls' = [calls EXCEPT ![c].state = "put", ![c].projects = s]
    /\ UNCHANGED <<now, cacheVars, bridgeVars, regVars>>

\* A handler that stores its list only if the cache holds none for the root.
HandlerPutIfAbsent(c) ==
    /\ calls[c].state = "put"
    /\ IF calls[c].root \in DOMAIN entries
       THEN UNCHANGED <<now, cacheVars, bridgeVars, regVars>>
       ELSE Put(calls[c].root, "", calls[c].projects)
    /\ calls' = [calls EXCEPT ![c].state = "idle",
                              ![c].result = jsonResult(calls[c].projects)]

\* projectCache.Put(cacheKey, "", projects) and return jsonResult(projects).
HandlerPut(c) ==
    /\ calls[c].state = "put"
    /\ Put(calls[c].root, "", calls[c].projects)
    /\ calls' = [calls EXCEPT ![c].state = "idle",
                              ![c].result = jsonResult(calls[c].projects)]

NextConcurrent ==
    \/ \E c \in Callers : \E root \in Roots : \E refresh \in BOOLEAN :
          HandlerCall(c, root, refresh) /\ UNCHANGED tool
    \/ \E c \in Callers : \E readOk \in BOOLEAN :
          HandlerScan(c, readOk) /\ UNCHANGED tool
    \/ \E c \in Callers : HandlerPut(c) /\ UNCHANGED tool
    \/ Tick /\ UNCHANGED <<hist, tool, calls>>
    \/ \E d \in ToolRepos : GitInit(d) /\ UNCHANGED <<tool, calls>>

SpecConcurrent == Init /\ [][NextConcurrent]_vars

\* =============================================================== timeouts
\* Times are in seconds.  A wait begins at one of Starts; the caller's context
\* has no deadline or one of Deadlines, which may already have passed.
MaxStart == 4
MaxWait == 12
Starts == {10 * k : k \in 0..MaxStart}
Deadlines == {10 * k : k \in 0..MaxWait}

\* NewBridge: the configured timeout.
timeout == 60

Least(a, b) == IF a < b THEN a ELSE b

\* runSidecar with the caller's deadline ignored.
deadlineConfigured(start, hasDeadline, d) == timeout

\* runSidecar: the duration handed to time.After; time.Until(d) is d - start.
deadline(start, hasDeadline, d) ==
    IF hasDeadline /\ d - start < timeout THEN d - start ELSE timeout

\* time.After fires at once for a duration that is not positive.
FiresAt(start, duration) == IF duration > 0 THEN start + duration ELSE start

\* ctx.Done() is closed when the deadline is reached, at once if it has passed.
DoneAt(start, d) == IF d > start THEN d ELSE start

\* runSidecar's select when no response line arrives: the wait ends when
\* time.After fires or ctx.Done() is closed, whichever is first.
runSidecarWait(start, hasDeadline, d) ==
    LET after == deadline(start, hasDeadline, d)
    IN  /\ timer' = [mode |-> "sidecar", start |-> start,
                     hasDeadline |-> hasDeadline, d |-> d, after |-> after,
                     ends |-> IF hasDeadline
                              THEN Least(FiresAt(start, after), DoneAt(start, d))
                              ELSE FiresAt(start, after)]
        /\ UNCHANGED <<now, cacheVars, bridgeVars, git, scanned, walk, mtime>>

\* runSingleShot: context.WithTimeout(ctx, b.timeout) gives the child context
\* the earlier of the parent's deadline and start + timeout; CommandContext
\* kills the process when the child context is done.
runSingleShotWait(start, hasDeadline, d) ==
    LET child == IF hasDeadline THEN Least(d, start + timeout)
                 ELSE start + timeout
    IN  /\ timer' = [mode |-> "oneshot", start |-> start,
                     hasDeadline |-> hasDeadline, d |-> d, after |-> timeout,
                     ends |-> DoneAt(start, child)]
        /\ UNCHANGED <<now, cacheVars, bridgeVars, git, scanned, walk, mtime>>

\* A context without a deadline is written with d = 0.
NextTimeout ==
    \/ \E s \in Starts : \E d \in Deadlines :
           runSidecarWait(s, TRUE, d) /\ UNCHANGED <<tool, calls>>
    \/ \E s \in Starts : runSidecarWait(s, FALSE, 0) /\ UNCHANGED <<tool, calls>>
    \/ \E s \in Starts : \E d \in Deadlines :
           runSingleShotWait(s, TRUE, d) /\ UNCHANGED <<tool, calls>>
    \/ \E s \in Starts : runSingleShotWait(s, FALSE, 0) /\ UNCHANGED <<tool, calls>>

SpecTimeout == Init /\ [][NextTimeout]_vars

\* =================================================================== claims
\* Positions of Run between b.mu.Lock() and the end of runSidecar's wait, i.e.
\* where a caller starts, writes to or reads from the sidecar.
SidecarSection == {"ensure", "handshake", "await", "failed"}

\* C1: at most one request is in flight per sidecar: while a caller is between
\* the write of its request line and the end of the wait for the response, it
\* holds the mutex and no other caller is anywhere in the section of Run that
\* starts, writes to or reads from the sidecar; more generally that section
\* holds at most one caller, the mutex holder.
C1_SingleInFlight ==
    \A c \in Callers :
        pc[c] \in SidecarSection =>
            /\ mu = c
            /\ \A d \in Callers \ {c} : pc[d] \notin SidecarSection

\* C1 witness: a request is in flight while the other caller waits for b.mu.
C1_Witness ==
    \E c \in Callers : \E d \in Callers \ {c} :
        pc[c] = "await" /\ pc[d] = "lock"

\* C2: every result or analyzer error Run returns for a sidecar request comes
\* from a response carrying that request's ID.
C2_ResponseMatchesRequest ==
    \A c \in Callers :
        (pc[c] = "done" /\ (via[c] = "sidecar" \/ err[c] = ErrAnalyzer))
            => respID[c] = reqID[c]

C4_EOFRetryOnce ==
    [][\A c \in Callers :
        /\ (pc[c] = "failed" /\ err[c] = ErrEOF /\ attempt[c] = 1
                /\ pc'[c] # "failed")
            => /\ ~proc'
               /\ crashTimes' # <<>>
               /\ crashTimes'[Len(crashTimes')] = now
               /\ IF fallback'
                  THEN pc'[c] = "oneshotU"
                  ELSE pc'[c] = "ensure" /\ attempt'[c] = 2 /\ mu' = c
        /\ (pc[c] = "failed" /\ attempt[c] = 2 /\ pc'[c] # "failed")
            => /\ pc'[c] = "done"
               /\ err'[c] = err[c]
               /\ err[c] # "none"
               /\ ~proc'
               /\ nextID' = nextID]_vars

\* C4 witness: a call whose retry ended in EOF as well has returned.
C4_Witness ==
    \E c \in Callers :
        /\ pc[c] = "done"
        /\ attempt[c] = 2
        /\ err[c] = ErrEOF
        /\ crashTimes # <<>>

\* The timestamps of ts that are less than CrashWindow old at time t.
Recent(ts, t) == SelectSeq(ts, LAMBDA x : t - x < CrashWindow)

C6_FallbackMonotone ==
    [][fallback => fallback']_vars

\* C6 witness: in fallback, a later crash was recorded that left fewer than
\* CrashLimit timestamps in the window.
C6_Witness ==
    fallback /\ Len(crashTimes) < CrashLimit

\* C7: once the fallback flag is set there is no sidecar process: none is
\* installed, and no Run awaits the ready line or the response of one.
C7_FallbackDisablesSidecar ==
    fallback =>
        /\ ~proc
        /\ \A c \in Callers : pc[c] \notin {"handshake", "await"}

\* C8: when the caller's context is cancelled during the wait, Run returns the
\* context error and the analyzer process is left alone.
C8_CancelLeavesAnalyzer ==
    [][\A c \in Callers :
        (pc[c] = "failed" /\ err[c] = ErrCtx /\ pc'[c] # "failed")
            => /\ pc'[c] = "done"
               /\ err'[c] = ErrCtx
               /\ proc' = proc]_vars

\* C9: a response whose ID differs from the outstanding request's ID is never
\* returned; it fails the call, and handling it tears the sidecar down and
\* records a crash.
C9_MismatchIsViolation ==
    [][\A c \in Callers :
        /\ (pc[c] = "await" /\ pc'[c] # "await"
                /\ (via'[c] = "sidecar" \/ err'[c] = ErrAnalyzer)
                /\ respID'[c] # reqID[c])
            => pc'[c] = "failed"
        /\ (pc[c] = "failed" /\ err[c] = ErrAnalyzer /\ respID[c] # reqID[c]
                /\ pc'[c] # "failed")
            => /\ pc'[c] = "done"
               /\ ~proc'
               /\ crashTimes' # <<>>
               /\ crashTimes'[Len(crashTimes')] = now]_vars

\* C10: a failed start or ready handshake fails Run at once with the startup
\* error: no crash timestamp, no second start within the call.
C10_StartupFailureSurfaces ==
    [][\A c \in Callers :
        (pc[c] = "failed" /\ err[c] = ErrStartup /\ pc'[c] # "failed")
            => /\ pc'[c] = "done"
               /\ err'[c] = ErrStartup
               /\ crashTimes' = crashTimes]_vars

\* C11: an unparseable response line fails the call: handling it tears the
\* sidecar down, records a crash and returns the parse error; the request is
\* not sent again, neither to a new sidecar nor to a one-shot subprocess.
C11_UnparseableNoResend ==
    [][\A c \in Callers :
        (pc[c] = "failed" /\ err[c] = ErrParse /\ pc'[c] # "failed")
            => /\ ~proc'
               /\ crashTimes' # <<>>
               /\ crashTimes'[Len(crashTimes')] = now
               /\ pc'[c] = "done"
               /\ err'[c] = ErrParse]_vars

C13_CrashRecovery ==
    [][/\ \A c \in Callers :
            (pc[c] = "ensure" /\ ~proc /\ pc'[c] # "ensure")
                => pc'[c] = "handshake" /\ nextID' = nextID
       /\ \A c \in Callers : pc'[c] = "await" => proc'
       /\ \A i \in DOMAIN Returns(hist') :
            /\ Returns(hist')[i].err = "none"
            /\ Returns(hist')[i].via = "sidecar"]_vars

\* C13 witness: the first request met EOF, a crash was recorded, and a second
\* call has returned.
C13_Witness ==
    /\ crashTimes # <<>>
    /\ Len(Returns(hist)) >= 2
    /\ Returns(hist)[2].err = "none"

\* Callers with an analyzer invocation in progress: a sidecar request written
\* and not yet answered, or a one-shot subprocess running.
Invoking == {c \in Callers : pc[c] \in {"await", "oneshot", "oneshotU"}}

\* C14 as stated: at no instant are two analyzer invocations of the supervisor
\* in progress, sidecar requests and one-shot subprocesses alike.
C14_NoTwoInvocations ==
    Cardinality(Invoking) <= 1

\* C14 amended: at no instant are two sidecar requests in progress, and while
\* the supervisor is in sidecar mode no two analyzer invocations of any kind
\* are; one-shot subprocesses run outside the mutex, so in fallback mode two
\* invocations can overlap, and then at least one of them is a one-shot
\* subprocess.
C14_SidecarRequestsSerialized ==
    /\ ~fallback => Cardinality(Invoking) <= 1
    /\ \A c \in Invoking : \A d \in Invoking \ {c} :
           pc[c] \in {"oneshot", "oneshotU"} \/ pc[d] \in {"oneshot", "oneshotU"}

\* C14 witness: in sidecar mode the retry of one call is outstanding on the
\* respawned sidecar while the other caller waits for the mutex.
C14_Witness ==
    /\ ~fallback
    /\ \E c \in Callers : \E d \in Callers \ {c} :
           pc[c] = "await" /\ attempt[c] = 2 /\ pc[d] = "lock"

\* Position in the log h of the call that the return at position j ends.
CallOf(h, j) ==
    CHOOSE i \in 1..j :
        /\ h[i].ev = "call"
        /\ h[i].who = h[j].who
        /\ \A k \in (i + 1)..(j - 1) : ~(h[k].ev = "call" /\ h[k].who = h[j].who)

\* C15: requests complete in submission order: when a call returns, every
\* call of another caller that was submitted before it has returned already.
C15_SubmissionOrder ==
    \A j \in DOMAIN hist :
        hist[j].ev = "ret" =>
            \A i \in 1..(CallOf(hist, j) - 1) :
                (hist[i].ev = "call" /\ hist[i].who # hist[j].who) =>
                    \E k \in (i + 1)..(j - 1) :
                        hist[k].ev = "ret" /\ hist[k].who = hist[i].who

\* C16: the wait for the supervisor mutex respects cancellation: a caller
\* whose context is cancelled while it waits for the mutex stops waiting by
\* returning the context error, not by getting the mutex and going on.
C16_CancelledLockReturns ==
    [][\A c \in Callers :
        (pc[c] = "lock" /\ cancelled[c] /\ pc'[c] # "lock")
            => pc'[c] = "done" /\ err'[c] = ErrCtx]_vars

\* C17: the system does not hang: every Run call that was entered eventually
\* reaches its return, whatever the analyzer does.
C17_RunReturns ==
    \A c \in Callers : (pc[c] # "idle") ~> (pc[c] = "done")

\* C18: Close takes the mutex only when it is free, so not while a caller is
\* anywhere between b.mu.Lock() and the end of its sidecar request, and no
\* caller enters that section while Close holds it; when Close returns the
\* supervisor holds no sidecar and the mutex is free, and nothing else of the
\* supervisor or of any call has changed, so a Close that finds no sidecar
\* (never started, or closed before) leaves everything as it was.
C18_CloseIdempotent ==
    [][/\ (mu # "close" /\ mu' = "close") =>
            /\ mu = ""
            /\ \A c \in Callers : pc[c] \notin SidecarSection
       /\ mu = "close" =>
            /\ \A c \in Callers : pc'[c] \notin SidecarSection
            /\ mu' \in {"close", ""}
       /\ (mu = "close" /\ mu' # "close") =>
            /\ ~proc'
            /\ mu' = ""
            /\ UNCHANGED <<pc, callerVars, nextID, crashVars>>
            /\ ~proc => UNCHANGED proc]_vars

\* C18 witness: Close holds the mutex on a supervisor without a sidecar while
\* a crash is on record (the sidecar was torn down before), and a caller
\* waits for the mutex.
C18_Witness ==
    /\ mu = "close"
    /\ ~proc
    /\ crashTimes # <<>>
    /\ \E c \in Callers : pc[c] = "lock"

\* C19: b.nextID never goes down, and every request line written (first
\* attempt or retry, on a sidecar found running or just spawned) carries an ID
\* greater than b.nextID was before, which then becomes b.nextID; so each ID
\* written exceeds all IDs written before it, and the requests that callers
\* have written last all differ.
C19_RequestIDsIncrease ==
    [][/\ nextID' >= nextID
       /\ \A c \in Callers :
            (/\ pc[c] \in {"ensure", "handshake"}
             /\ \/ pc'[c] = "await"
                \/ pc'[c] = "failed" /\ err'[c] = ErrWrite)
                => /\ reqID'[c] > nextID
                   /\ nextID' = reqID'[c]
       /\ \A c \in Callers : reqID'[c] <= nextID'
       /\ \A c \in Callers : \A d \in Callers \ {c} :
            reqID'[c] # 0 => reqID'[c] # reqID'[d]]_vars

\* C19 witness: after a crash the retry of a call is outstanding on the new
\* sidecar under an ID above the one of its first attempt, and the other
\* caller has had a request of its own.
C19_Witness ==
    \E c \in Callers : \E d \in Callers \ {c} :
        /\ pc[c] = "await"
        /\ attempt[c] = 2
        /\ crashTimes # <<>>
        /\ reqID[d] # 0
        /\ reqID[c] > reqID[d]

\* C20: a Get(k, f) returns ok exactly when the most recent Put on k is still
\* stored, was made with fingerprint f and is at most ttl old, and then it
\* returns the value of that Put; in every other case it misses.  So a Put
\* followed directly by a Get with the same key and fingerprint hits with the
\* value put.
C20_GetHitsLatestPut ==
    [][(ret'.called /\ now' = now) =>
          LET k == ret'.key
              f == ret'.mtimeHash
              fresh == /\ k \in DOMAIN lastPut
                       /\ lastPut[k].mtimeHash = f
                       /\ now - lastPut[k].at <= ttl
          IN  /\ ret'.ok <=> fresh
              /\ ret'.ok => ret'.value = lastPut[k].value]_vars

\* C20 witness: a Get hit on an entry exactly ttl old that was put after the
\* clock had advanced.
C20_Witness ==
    /\ ret.called
    /\ ret.ok
    /\ ret.key \in DOMAIN lastPut
    /\ now - lastPut[ret.key].at = ttl
    /\ lastPut[ret.key].at > 0

\* C21: LRU eviction: when a Put adds a new key to a map that holds maxSize
\* entries, exactly one of the old entries is gone afterwards, it is one whose
\* lastUsed (time of its Put or of its latest Get hit) no other entry
\* undercuts, and the other entries are as they were.
C21_PutEvictsLRU ==
    [][\A k \in Keys :
        (/\ k \notin DOMAIN entries
         /\ k \in DOMAIN entries'
         /\ Cardinality(DOMAIN entries) = maxSize)
            => \E x \in DOMAIN entries :
                   /\ DOMAIN entries' = (DOMAIN entries \ {x}) \cup {k}
                   /\ \A y \in DOMAIN entries :
                          entries[x].lastUsed <= entries[y].lastUsed
                   /\ \A y \in DOMAIN entries \ {x} :
                          entries'[y] = entries[y]]_vars

\* C22: Invalidate(k) leaves the map without k and every other entry as it
\* was, so on an absent key it changes nothing; a key that is not in the map
\* comes back only by a Put on it, and until then every Get on it misses.
C22_InvalidateRemovesOnlyKey ==
    [][/\ (ret'.op = "Invalidate" /\ now' = now) =>
            /\ DOMAIN entries' = DOMAIN entries \ {ret'.key}
            /\ \A x \in DOMAIN entries' : entries'[x] = entries[x]
            /\ ret'.key \notin DOMAIN entries => entries' = entries
       /\ \A k \in Keys :
            (k \notin DOMAIN entries /\ k \in DOMAIN entries') =>
                ret'.op = "Put" /\ ret'.key = k
       /\ (ret'.op = "Get" /\ now' = now /\ ret'.key \notin DOMAIN entries) =>
            ~ret'.ok]_vars

\* C22 witness: Invalidate has just returned, its key is not in the map and
\* an entry of another key, touched by a Get hit since it was put, still is.
C22_Witness ==
    /\ ret.op = "Invalidate"
    /\ ret.key \notin DOMAIN entries
    /\ \E x \in DOMAIN entries : entries[x].cachedAt < entries[x].lastUsed

\* ------------------------------------------------------------- registry
\* f is p or lies below p.
Under(f, p) == Len(f) >= Len(p) /\ SubSeq(f, 1, Len(p)) = p
\* Some directory from f upwards, strictly below p, holds .git.
NearerGit(f, p) ==
    \E d \in git : Under(f, d) /\ Under(d, p) /\ d # p
\* The Resolve call has returned, for the tree the latest Scan has seen.
Resolved == scanned.ok /\ walk.state \in {"found", "failed"}

\* C23 (as claimed): for every project p returned by Scan(R) and every file
\* or directory f under p.Path, Resolve(f) succeeds and returns a project
\* whose Path is p.Path.
C23_ResolveRoundTrip ==
    Resolved =>
        \A i \in 1..Len(scanned.list) :
            Under(walk.path, scanned.list[i].Path) =>
                /\ walk.state = "found"
                /\ walk.project.Path = scanned.list[i].Path

\* C23 (amended): for every project p returned by Scan(R) and every f under
\* p.Path, Resolve(f) succeeds; it returns the project of the nearest
\* directory from f upwards that holds .git, which is p.Path exactly when no
\* directory from f up to, but excluding, p.Path holds .git.
C23_ResolveNearestProject ==
    Resolved =>
        \A i \in 1..Len(scanned.list) :
            Under(walk.path, scanned.list[i].Path) =>
                /\ walk.state = "found"
                /\ HasGit(git, walk.project.Path)
                /\ Under(walk.path, walk.project.Path)
                /\ ~NearerGit(walk.path, walk.project.Path)
                /\ (walk.project.Path = scanned.list[i].Path
                        <=> ~NearerGit(walk.path, scanned.list[i].Path))

\* A file two levels below a scanned project's directory was resolved to it.
C23_Witness ==
    /\ Resolved
    /\ walk.state = "found"
    /\ \E i \in 1..Len(scanned.list) : scanned.list[i] = walk.project
    /\ walk.path # walk.project.Path
    /\ walk.project.Group # ""

\* The .git entries in R or beneath it.
Markers == {d \in git : Under(d, R)}
\* The directories Scan looks into for .git: the root, and the non-hidden
\* directories of the non-hidden directories of the root.
Visited ==
    {R} \cup {R \o <<g, s>> : g \in {n \in Names : ~Hidden(n)},
                              s \in {n \in Names : ~Hidden(n)}}

C25_ScanDeterministicSorted ==
    [][scanned'.ok =>
          /\ scanned.ok => scanned'.list = scanned.list
          /\ \A i, j \in 1..Len(scanned'.list) :
                 i < j => Less(scanned'.list[i], scanned'.list[j])
          /\ HasGit(git', R) =>
                 /\ scanned'.list[1] = RootProject
                 /\ scanned'.list[1].Group = ""]_vars

\* The same tree has been scanned twice; the list holds the root project and
\* a project of a group.
C25_Witness ==
    /\ scanned.again
    /\ Len(scanned.list) = 2
    /\ scanned.list[1].Path = R
    /\ scanned.list[2].Group # ""

\* C26: Resolve on a path none of whose ancestors (the path included) holds
\* .git returns the not-within-any-git-project error and no project; the
\* upward walk always terminates, at the latest at the filesystem root: every
\* round of the loop either returns or moves current to its proper parent,
\* and at the root it returns.
C26_ResolveFailsOutsideProjects ==
    [][/\ (walk'.state \in {"found", "failed"}
              /\ ~\E d \in git' : Under(walk'.path, d)) =>
                  walk'.state = "failed" /\ walk'.project = NoProject
       /\ walk'.state = "failed" => ~\E d \in git' : Under(walk'.path, d)
       /\ walk.state = "walking" =>
              \/ walk'.state \in {"found", "failed"}
              \/ /\ walk'.state = "walking"
                 /\ walk'.current = Dir(walk.current)
                 /\ Len(walk'.current) < Len(walk.current)
       /\ (walk.state = "walking" /\ walk.current = <<>>) =>
              walk'.state \in {"found", "failed"}]_vars

\* Resolve of a path three levels below the workspace root has walked up to
\* the filesystem root and returned the error, in a tree that has a
\* repository elsewhere.
C26_Witness ==
    /\ walk.state = "failed"
    /\ walk.current = <<>>
    /\ Len(walk.path) = 4
    /\ git # {}

RegistryCalled ==
    /\ tool.state = "idle"
    /\ tool'.name = "project_registry"
    /\ tool'.args.root # ""
    /\ now' = now
    /\ git' = git
\* The step is the second step of a project_registry call: Scan and what
\* follows it.
RegistryScanned ==
    /\ tool.name = "project_registry"
    /\ tool.state = "scan"
    /\ tool'.state = "idle"

C29_ErrorsStayInToolResults ==
    [][/\ tool'.goErr = "nil"
       /\ (tool'.state = "idle" /\ tool'.name # "") =>
              /\ tool'.result.kind \in {"error", "text"}
              /\ tool'.result.isError <=> tool'.result.kind = "error"
       /\ (/\ tool.state = "idle"
           /\ tool'.name \in BridgeTools
           /\ Missing(tool'.name, tool'.args)) =>
              /\ tool'.state = "idle"
              /\ tool'.result.isError
              /\ ~tool'.ran
              /\ UNCHANGED bridgeVars
       /\ (/\ tool.state = "idle"
           /\ tool'.name \in BridgeTools
           /\ ~Missing(tool'.name, tool'.args)
           /\ tool' # tool) =>
              tool'.state = "run" /\ tool'.ran /\ pc'["a"] # "idle"
       /\ (tool.state = "run" /\ tool'.state = "idle") =>
              /\ tool'.result.isError <=> err["a"] # "none"
              /\ tool'.result.isError => tool'.result.body = err["a"]
       /\ (tool.state = "idle" /\ tool'.name = "resolve_project"
               /\ tool'.args.missing) =>
              tool'.state = "idle" /\ tool'.result.isError
       /\ (tool.state = "resolve" /\ tool'.state = "idle") =>
              tool'.result.isError <=> walk'.state = "failed"
       /\ (tool.state = "scan" /\ tool'.state = "idle") =>
              tool'.result.isError <=> ~Readable(tool.args.root)
       /\ (tool.state = "idle" /\ tool'.name = "agent_map"
               /\ tool'.args.root # "") =>
              tool'.result.isError <=> ~Readable(tool'.args.root)]_vars

\* impact_analysis was called without its target after the bridge had served
\* a call: it has returned an error result and Run was not called.
C29_Witness ==
    /\ tool.name = "impact_analysis"
    /\ tool.state = "idle"
    /\ tool.args["project"] = "p"
    /\ tool.args["target"] = ""
    /\ tool.result.isError
    /\ ~tool.ran
    /\ tool.goErr = "nil"
    /\ pc["a"] = "idle"
    /\ nextID > 0

\* The step is an agent_map call, for a readable root, with the agent
\* service configured but unreachable (ListAgents fails).
AgentMapUnreachable ==
    /\ tool.state = "idle"
    /\ tool'.name = "agent_map"
    /\ now' = now
    /\ git' = git
    /\ Readable(tool'.args.root)
    /\ tool'.args.configured
    /\ ~tool'.args.agentsOk

C39_ScanResolveAgree ==
    Resolved =>
        \A i \in 1..Len(scanned.list) :
            (/\ Under(walk.path, scanned.list[i].Path)
             /\ ~NearerGit(walk.path, scanned.list[i].Path))
                => /\ walk.state = "found"
                   /\ walk.project = scanned.list[i]

\* --------------------------------------------------- supervisor, continued
\* C31: a response that carries an error field makes Run return the
\* analyzer's error and is not a crash: handling it leaves the sidecar up,
\* records no crash timestamp, does not switch to fallback and sends nothing
\* again.
C31_AnalyzerErrorIsNoCrash ==
    [][\A c \in Callers :
        (pc[c] = "failed" /\ err[c] = ErrAnalyzer /\ pc'[c] # "failed")
            => /\ pc'[c] = "done"
               /\ err'[c] = ErrAnalyzer
               /\ proc' = proc
               /\ crashTimes' = crashTimes
               /\ fallback' = fallback]_vars

\* C32: in sidecar mode the wait for a response ends after the smaller of the
\* configured timeout and the time left until the caller's deadline (the
\* configured timeout when there is no deadline); a one-shot call ends no
\* later than the configured timeout after it began.
C32_WaitIsLeastOfTimeoutAndDeadline ==
    /\ timer.mode = "sidecar" =>
           /\ timer.after <= timeout
           /\ timer.hasDeadline => timer.after <= timer.d - timer.start
           /\ \/ timer.after = timeout
              \/ timer.hasDeadline /\ timer.after = timer.d - timer.start
           /\ timer.ends <= FiresAt(timer.start, timer.after)
           /\ ~timer.hasDeadline => timer.ends = timer.start + timeout
    /\ timer.mode = "oneshot" =>
           /\ timer.ends >= timer.start
           /\ timer.ends <= timer.start + timeout

C32_Witness ==
    /\ timer.mode = "sidecar"
    /\ timer.hasDeadline
    /\ timer.d > timer.start
    /\ timer.d - timer.start < timeout
    /\ timer.ends = timer.d

\* ------------------------------------------------------- cache, continued
\* C33: capacity bound: whatever Put, Get and Invalidate calls were made, with
\* the empty string among the keys, the map holds at most maxSize entries.
C33_CapacityBound == Cardinality(DOMAIN entries) <= maxSize

\* C34: a Get whose fingerprint differs from the stored one misses and deletes
\* the entry; a key that is not in the map comes back only by a Put on it, and
\* until then every Get on it misses, whatever its fingerprint, the originally
\* stored one included.
C34_MismatchDeletesEntry ==
    [][/\ (/\ ret'.op = "Get"
           /\ now' = now
           /\ ret'.key \in DOMAIN entries
           /\ entries[ret'.key].mtimeHash # ret'.mtimeHash)
            => /\ ~ret'.ok
               /\ ret'.deleted
               /\ DOMAIN entries' = DOMAIN entries \ {ret'.key}
       /\ \A k \in Keys : \A f \in Hashes :
            (k \notin DOMAIN entries /\ now' = now /\ ret'.op = "Get"
             /\ ret'.key = k /\ ret'.mtimeHash = f)
                => ret' = Miss(k, f) /\ k \notin DOMAIN entries'
       /\ \A k \in Keys :
            (k \notin DOMAIN entries /\ k \in DOMAIN entries')
                => /\ ret'.op = "Put"
                   /\ ret'.key = k
                   /\ entries'[k].cachedAt = now]_vars

\* C34 witness: a Get has deleted an entry that was too young to have expired,
\* so its fingerprint differed; another key's entry is still stored.
C34_Witness ==
    /\ ret.op = "Get"
    /\ ret.deleted
    /\ now <= ttl
    /\ ret.key \notin DOMAIN entries
    /\ entries # EmptyMap

\* C35: Get hits do not extend an entry's lifetime: a stored entry's cachedAt
\* is the time of the most recent Put on its key, a hit changes lastUsed only,
\* cachedAt changes only by a Put on the key, and a Get on an entry put more
\* than ttl ago misses however recently the entry was read.
C35_HitsDoNotExtendLifetime ==
    [][/\ \A k \in DOMAIN entries :
            k \in DOMAIN lastPut /\ entries[k].cachedAt = lastPut[k].at
       /\ (ret'.op = "Get" /\ now' = now /\ ret'.ok) =>
            /\ DOMAIN entries' = DOMAIN entries
            /\ entries' = [entries EXCEPT ![ret'.key].lastUsed = now]
            /\ now - lastPut[ret'.key].at <= ttl
       /\ \A k \in DOMAIN entries \cap DOMAIN entries' :
            entries'[k].cachedAt # entries[k].cachedAt =>
                /\ ret'.op = "Put"
                /\ ret'.key = k
                /\ entries'[k].cachedAt = now
       /\ (/\ ret'.op = "Get"
           /\ now' = now
           /\ ret'.key \in DOMAIN entries
           /\ now - lastPut[ret'.key].at > ttl)
            => ret' = Stale(ret'.key, ret'.mtimeHash)]_vars

\* C35 witness: the latest call was a Get hit on an entry that is now older
\* than ttl although it was read less than ttl ago.
C35_Witness ==
    /\ ret.op = "Get"
    /\ ret.ok
    /\ ret.key \in DOMAIN entries
    /\ entries[ret.key].cachedAt < entries[ret.key].lastUsed
    /\ now - entries[ret.key].cachedAt > ttl
    /\ now - entries[ret.key].lastUsed <= ttl

\* --------------------------------------------------- supervisor, the mutex
\* C36: a failed sidecar is dropped before anyone else can use it: a call is
\* in runSidecar or handles its failure only while it holds the mutex, the
\* step that handles a failure clears the process (with stdin and scanner), a
\* Run that returns the sidecar's error returns with no process installed, and
\* a request is written only to an installed process while no other call's
\* failure is still unhandled.
C36_FailedSidecarIsDropped ==
    [][/\ (~proc /\ proc') =>
            \E x \in Callers : mu = x /\ pc[x] = "handshake"
       /\ \A c \in Callers :
        /\ pc[c] \in {"ensure", "handshake", "await", "failed"} => mu = c
        /\ (pc[c] = "failed" /\ pc'[c] # "failed") => ~proc'
        /\ (/\ pc[c] # "done"
            /\ pc'[c] = "done"
            /\ err'[c] # "none"
            /\ via'[c] # "oneshot")
            => /\ pc[c] = "failed"
               /\ ~proc'
               /\ mu' = ""
        /\ (pc[c] # "await" /\ pc'[c] = "await")
            => /\ proc'
               /\ mu = c
               /\ \A x \in Callers \ {c} : pc[x] # "failed"]_vars

\* C36 witness: a Run has returned the error of its failed retry, no process
\* is installed, and another call is waiting for the mutex.
C36_Witness ==
    \E c \in Callers :
        /\ pc[c] = "done"
        /\ err[c] \notin {"none", ErrStartup}
        /\ via[c] # "oneshot"
        /\ attempt[c] = 2
        /\ ~proc
        /\ \E x \in Callers \ {c} : pc[x] = "lock"

\* ------------------------------------------- concurrent project_registry
\* C37: a project_registry call whose scan fails returns the scan error as
\* its result and the failing step leaves the cache as it was; a call with
\* refresh does not touch the cache before its scan, so a failed refresh
\* keeps the cached list, and a call without refresh that finds a list no
\* older than ttl returns that list without scanning.
C37_FailedScanKeepsCache ==
    [][\A c \in Callers :
        /\ (calls[c].state = "scan" /\ calls'[c].state = "idle") =>
              /\ calls'[c].result = ToolResultError("scan")
              /\ entries' = entries
        /\ (calls[c].state = "idle" /\ calls'[c] # calls[c]
                /\ calls'[c].refresh) =>
              /\ calls'[c].state = "scan"
              /\ entries' = entries
        /\ (/\ calls[c].state = "idle"
            /\ calls'[c] # calls[c]
            /\ ~calls'[c].refresh
            /\ calls'[c].root \in DOMAIN entries
            /\ now - entries[calls'[c].root].cachedAt <= ttl) =>
              /\ calls'[c].state = "idle"
              /\ calls'[c].result
                     = jsonResult(entries[calls'[c].root].value)
              /\ DOMAIN entries' = DOMAIN entries
              /\ entries'[calls'[c].root].value
                     = entries[calls'[c].root].value]_vars

\* C37 witness: a refresh call has returned the scan error, the list stored
\* before is still cached and young enough, and the other goroutine's call
\* without refresh has been answered with it.
C37_Witness ==
    \E c \in Callers : \E x \in Callers \ {c} :
        /\ calls[c].state = "idle"
        /\ calls[c].refresh
        /\ calls[c].result = ToolResultError("scan")
        /\ calls[c].root \in DOMAIN entries
        /\ now - entries[calls[c].root].cachedAt <= ttl
        /\ entries[calls[c].root].cachedAt < entries[calls[c].root].lastUsed
        /\ calls[x].state = "idle"
        /\ ~calls[x].refresh
        /\ ~calls[x].missed
        /\ calls[x].result = jsonResult(entries[calls[c].root].value)

\* C38: the handler's Put stores the list its own Scan returned over whatever
\* the cache holds, also over a list scanned later; a cached list is replaced
\* or removed only by the Put of a call that scanned (after a miss or with
\* refresh) or when it is older than ttl, and until then calls without refresh
\* are answered with it.
C38_LastPutWins ==
    [][/\ \A c \in Callers :
            /\ (calls[c].state = "put" /\ calls'[c].state = "idle") =>
                  /\ entries'[calls[c].root].value = calls[c].projects
                  /\ entries'[calls[c].root].cachedAt = now
                  /\ calls'[c].result = jsonResult(calls[c].projects)
                  /\ calls[c].refresh \/ calls[c].missed
            /\ (calls[c].state = "idle" /\ calls'[c].state = "scan"
                    /\ ~calls'[c].refresh) =>
                  \/ calls'[c].root \notin DOMAIN entries
                  \/ now - entries[calls'[c].root].cachedAt > ttl
       /\ \A root \in Roots :
            (/\ root \in DOMAIN entries
             /\ \/ root \notin DOMAIN entries'
                \/ entries'[root].value # entries[root].value) =>
                  \/ \E c \in Callers :
                        /\ calls[c].state = "put"
                        /\ calls'[c].state = "idle"
                        /\ calls[c].root = root
                  \/ now - entries[root].cachedAt > ttl]_vars

\* C38 witness: both goroutines' calls missed before any list was stored and
\* both scanned; the list in the cache is the one scanned before a repository
\* appeared, although the other call has returned the list with it.
C38_Witness ==
    \E a \in Callers : \E b \in Callers \ {a} :
        /\ now = 0
        /\ calls[a].state = "idle" /\ calls[a].missed
        /\ calls[b].state = "idle" /\ calls[b].missed
        /\ calls[a].root = calls[b].root
        /\ ~calls[a].result.isError
        /\ ~calls[b].result.isError
        /\ calls[b].result.body.json \in SortSlice(Collected(git))
        /\ calls[a].result.body.json \notin SortSlice(Collected(git))
        /\ calls[a].root \in DOMAIN entries
        /\ entries[calls[a].root].value = calls[a].result.body.json

\* Some call is in progress or Close holds the mutex, and a call can take a
\* step.
CanStep ==
    (mu = "close" \/ \E c \in Callers : pc[c] \notin {"idle", "done"})
        => ENABLED CallStep

\* C40: the mutex is taken only when it is free and released only by its
\* holder; a caller holds it exactly while it is between b.mu.Lock() and the
\* end of its sidecar attempts, so not during the one-shot run of the fallback
\* path, not while it waits to lock again and not after its return; the
\* fallback path's second Lock waits for the mutex and the return releases it
\* again; and whenever a Run has not returned or Close holds the mutex, some
\* call can take a step.
C40_MutexBalanced ==
    [][/\ (mu' # mu /\ mu' # "") =>
            /\ mu = ""
            /\ mu' \in Callers =>
                   pc[mu'] = "lock" /\ pc'[mu'] = "ensure"
       /\ (mu # "" /\ mu' # mu) =>
            /\ mu' = ""
            /\ mu \in Callers =>
                   /\ pc[mu] \in SidecarSection
                   /\ pc'[mu] \in {"done", "oneshotU"}
                   /\ \A x \in Callers \ {mu} : pc'[x] = pc[x]
            /\ mu = "close" => pc' = pc
       /\ \A c \in Callers :
            /\ mu = c <=> pc[c] \in SidecarSection
            /\ mu' = c <=> pc'[c] \in SidecarSection
            /\ (pc[c] = "relock" /\ pc'[c] # "relock") =>
                   /\ mu = ""
                   /\ mu' = ""
                   /\ pc'[c] = "done"
       /\ CanStep
       /\ CanStep']_vars

\* C40 witness: a caller has released the mutex for its one-shot run on the
\* fallback path and waits to lock it again while the other caller holds it.
C40_Witness ==
    \E c \in Callers : \E x \in Callers \ {c} :
        /\ pc[c] = "relock"
        /\ mu = x
        /\ pc[x] \in SidecarSection

====
